---------------------------- MODULE Spec2Model ----------------------------
(***************************************************************************)
(* A model of the Blender <-> SMF (SnidrsModelFormat) exporter/importer.   *)
(*                                                                         *)
(* The module holds several specifications over one set of variables, one  *)
(* per component of the program:                                           *)
(*   SpecRig       the rig chunk of export_smf_file (node list, bindmap,   *)
(*                 node records)                                           *)
(*   SpecSkin      smf_skin_indices_weights                                *)
(*   SpecContainer the header/offset table of the three encoders           *)
(*   SpecScene     the scene state export_smf_file changes and restores    *)
(*   SpecImport    import_smf_file                                         *)
(* A specification leaves the variables of the other components alone.     *)
(***************************************************************************)
EXTENDS Integers, Sequences, FiniteSets, TLC

VARIABLES
    \* ---- rig chunk (export_smf.py, export_smf_file lines 176-229) ----
    rig_pc,         \* position of the encoder in the rig part
    has_rig,        \* an ARMATURE object is among the selected objects
    armature,       \* armature.bones: sequence of [name, parent, use_connect]
    bones,          \* the working node list (bone id, None or False)
    bindmap,        \* dict bone name -> skin index
    nodeNum,        \* the uint32 written at the start of rig_bytes (-1: not yet)
    rig_nodes,      \* the node records appended to rig_bytes
    n,              \* loop index of "for n, bone in enumerate(bones)"
    \* ---- smf_skin_indices_weights (export_smf.py lines 89-113) ----
    skin_pc,        \* position inside smf_skin_indices_weights
    vertices,       \* mesh.vertices: per vertex the sequence v.groups
    index_map,      \* dict vertex group index -> SMF bone index
    num_influences, \* the parameter num_influences
    indices,        \* the list "indices", one row of 4 per vertex
    weights,        \* the list "weights", one row of 4 per vertex
    v,              \* number of vertices the loop "for v in vertices" has done
    \* ---- the container written by the three encoders ----
    enc,            \* the encoder: "v11" export_smf_file, "v10" export_smf,
                    \* "v7" ExportSMF.execute of io_export_gms_smf.py
    long_size,      \* size of struct's native 'L' on the platform (4 or 8)
    export_textures,    \* the option export_textures
    export_nla_tracks,  \* the option export_nla_tracks (v10)
    model_list,     \* the selected mesh objects: [tris, mat]
    has_anim_data,  \* rig_object.animation_data is set
    anim_frames,    \* the animations found: the number of frames of each
    ct_pc,          \* position of the encoder
    built,          \* number of chunks built so far
    chunks,         \* the byte buffers, chunk name -> sequence of fields
    header_bytes,   \* the header buffer (sequence of fields)
    offsets,        \* the tuple offsets packed into the header
    file,           \* the file: one entry [chunk, bytes] per file.write call
    \* ---- the scene state export_smf_file changes (export_smf.py) ----
    sc_pc,          \* position of export_smf_file
    pose_position,  \* Armature.pose_position of the armature: "POSE" or "REST"
    action,         \* rig_object.animation_data.action: an action id, or None
    mute,           \* track.mute of each track of animation_data.nla_tracks
    frame_current,  \* scene.frame_current
    at_call,        \* the four values above when export_smf_file was called
    export_type,    \* the option export_type: "KFR" or "SPL"
    subdivisions,   \* the option subdivisions
    arma_mods,      \* per mesh object: it has an Armature modifier with an object
    animations,     \* the dict animations: the actions [id, keyframes, frame_range]
    anim_export_mode,   \* the option anim_export_mode: 'CUR', 'LNK', 'TRA', 'SCN'
    strips,         \* per NLA track: the action ids of its strips
    animation_bytes,    \* the animation chunk: the count byte and the records
    obj_i,          \* mesh objects the loop "for obj in model_list" has done
    anim_i,         \* actions the loop "for anim in animations" has done
    arma_prev_position, \* the local arma_prev_position
    action_prev,    \* the local action_prev
    mute_prev,      \* the local mute_prev
    frame_prev,     \* the local frame_prev of write_animation_data
    kf_times,       \* the local kf_times: times [num, den], num/den frames
    kf_end,         \* the local kf_end
    kf_i,           \* keyframe times the loop of write_animation_data has done
    \* ---- import_smf_file (import_smf.py) ----
    im_pc,          \* position of import_smf_file
    data,           \* the bytes of the file, by content
    create_new_materials_images,    \* the option of that name
    reads,          \* what import_smf_file has unpacked from data, in order
    versionNum,     \* the local versionNum
    tex_i,          \* textures the loop "for i in range(n)" has done
    model_index,    \* models the loop "for model_index in range(modelNum)" has done
    img,            \* the local img: <<>> for None, <<name>> for an image
    material_map,   \* the dict material_map: image name -> material name
    images,         \* bpy.data.images: the names, in order of creation
    materials,      \* bpy.data.materials: the names, in order of creation
    meshes,         \* number of meshes in bpy.data.meshes
    objects,        \* the objects created: [type, material]
    edit_bones      \* number of bones of the armature created

\* dq_normalize (pydq.py)
VARIABLES
    dq_pc,          \* "idle", "call", "returned", "raised"
    dq,             \* the argument: [real, dual], each (w, x, y, z)
    dq_result       \* the dual quaternion after the call, components as fractions

\* apply_world_matrix (export_smf.py)
VARIABLES
    mx_pc,          \* "idle", "call", "returned"
    matrix,         \* the bone matrix, 4x4, as a sequence of rows
    matrix_world,   \* the world matrix of the armature object, 4x4
    mat_w           \* the matrix returned

\* texture_image_from_node_tree and the sub-block that uses it (export_smf.py)
VARIABLES
    tx_pc,          \* "idle", "call", "img", "written"
    material,       \* the material of the slot: its node tree
    image,          \* the local img: "None" or the state of the image found
    reports,        \* what was passed to operator.report
    sub_img_name,   \* img_name: the texture name written to the sub-block
    unique_images   \* the set unique_images the texture chunk is built from

\* unpack_string_from and its caller (import_smf.py)
VARIABLES
    str_pc,         \* "idle", "loop", "returned", "advanced"
    str_name,       \* the name the encoder wrote, as code points
    str_data,       \* data: the bytes of the file around the name
    str_start,      \* the offset the caller passes
    str_offset,     \* the local offset of unpack_string_from
    str_result,     \* the local result, as code points
    str_next        \* the caller's offset after "offset + len(name) + 1"

\* dq_get_product and dq_get_conjugate (pydq.py)
VARIABLES
    pr_pc,       \* "idle", "conjugate", "product", "returned"
    dq1,         \* the first operand: [real, dual], fractions over den
    dq2,         \* the second operand
    dq_product   \* the dual quaternion dq_get_product returns

\* The model chunk of export_smf_file (export_smf.py)
VARIABLES
    mc_pc,         \* "idle", "objects", "done"
    mesh_objects,  \* model_list: per object [slots, faces], faces the material_index of each triangle
    mc_obj,        \* objects the loop "for obj in model_list" has done
    model_number,  \* the local model_number
    model_bytes    \* the bytearray model_bytes, as fields

\* The node loop of write_animation_data (export_smf.py)
VARIABLES
    nl_pc,       \* "idle", "nodes", "done"
    pose_bones,  \* the bones of the armature, with the head and tail of their pose
    node_list,   \* the list bones: smf_node_list(rig_object)
    node_i,      \* nodes the loop "for rbone in bones" has done
    pose_bone,   \* the local bone: None or the pose bone last looked up
    node_mats    \* the matrix of each node written: [rot, translation]

\* The vertex loop of export_smf_file (export_smf.py)
VARIABLES
    uv_pc,           \* "idle", "faces", "done"
    invert_uv_v,     \* the export option invert_uv_v
    loop_triangles,  \* mesh.loop_triangles: the loops of each triangle
    uv_data,         \* the V of each loop in mesh.uv_layers.active.data, in parts of MaxUv; <<>> without a UV layer
    uv_orig,         \* uv_data as it was before the loop started
    face_i,          \* triangles the loop has done
    corner_i,        \* loops of the current triangle the loop has done
    vertex_records   \* the records written: [loop, v]

rig_vars == <<rig_pc, has_rig, armature, bones, bindmap, nodeNum, rig_nodes, n>>

skin_vars == <<skin_pc, vertices, index_map, num_influences, indices, weights, v>>

ct_vars == <<enc, long_size, export_textures, export_nla_tracks, model_list,
             has_anim_data, anim_frames, ct_pc, built, chunks, header_bytes,
             offsets, file>>

sc_vars == <<sc_pc, pose_position, action, mute, frame_current, at_call,
             export_type, subdivisions, arma_mods, animations, obj_i, anim_i,
             arma_prev_position, action_prev, mute_prev, frame_prev, kf_times,
             kf_end, kf_i, anim_export_mode, strips, animation_bytes>>

im_vars == <<im_pc, data, create_new_materials_images, reads, versionNum, tex_i,
             model_index, img, material_map, images, materials, meshes, objects,
             edit_bones>>

dq_vars == <<dq_pc, dq, dq_result>>

mx_vars == <<mx_pc, matrix, matrix_world, mat_w>>

tx_vars == <<tx_pc, material, image, reports, sub_img_name, unique_images>>

str_vars == <<str_pc, str_name, str_data, str_start, str_offset, str_result,
              str_next>>

pr_vars == <<pr_pc, dq1, dq2, dq_product>>

mc_vars == <<mc_pc, mesh_objects, mc_obj, model_number, model_bytes>>

nl_vars == <<nl_pc, pose_bones, node_list, node_i, pose_bone, node_mats>>

uv_vars == <<uv_pc, invert_uv_v, loop_triangles, uv_data, uv_orig, face_i,
    corner_i, vertex_records>>

\* The functions that are modelled on their own.
fn_vars == <<dq_vars, mx_vars, tx_vars, str_vars, pr_vars, mc_vars, nl_vars,
    uv_vars>>

vars == <<rig_vars, skin_vars, ct_vars, sc_vars, im_vars, fn_vars>>

\* What the actions of one component leave alone: the other components.
rig_frame == <<skin_vars, ct_vars, sc_vars, im_vars, fn_vars>>
skin_frame == <<rig_vars, ct_vars, sc_vars, im_vars, fn_vars>>
ct_frame == <<rig_vars, skin_vars, sc_vars, im_vars, fn_vars>>
sc_frame == <<rig_vars, skin_vars, ct_vars, im_vars, fn_vars>>
im_frame == <<rig_vars, skin_vars, ct_vars, sc_vars, fn_vars>>
dq_frame ==
    <<rig_vars, skin_vars, ct_vars, sc_vars, im_vars, mx_vars, tx_vars,
      str_vars, pr_vars, mc_vars, nl_vars, uv_vars>>
mx_frame ==
    <<rig_vars, skin_vars, ct_vars, sc_vars, im_vars, dq_vars, tx_vars,
      str_vars, pr_vars, mc_vars, nl_vars, uv_vars>>
tx_frame ==
    <<rig_vars, skin_vars, ct_vars, sc_vars, im_vars, dq_vars, mx_vars,
      str_vars, pr_vars, mc_vars, nl_vars, uv_vars>>
str_frame ==
    <<rig_vars, skin_vars, ct_vars, sc_vars, im_vars, dq_vars, mx_vars,
      tx_vars, pr_vars, mc_vars, nl_vars, uv_vars>>
pr_frame ==
    <<rig_vars, skin_vars, ct_vars, sc_vars, im_vars, dq_vars, mx_vars,
      tx_vars, str_vars, mc_vars, nl_vars, uv_vars>>
mc_frame ==
    <<rig_vars, skin_vars, ct_vars, sc_vars, im_vars, dq_vars, mx_vars,
      tx_vars, str_vars, pr_vars, nl_vars, uv_vars>>
nl_frame ==
    <<rig_vars, skin_vars, ct_vars, sc_vars, im_vars, dq_vars, mx_vars,
      tx_vars, str_vars, pr_vars, mc_vars, uv_vars>>
uv_frame ==
    <<rig_vars, skin_vars, ct_vars, sc_vars, im_vars, dq_vars, mx_vars,
      tx_vars, str_vars, pr_vars, mc_vars, nl_vars>>

-----------------------------------------------------------------------------
(* Bounds of the model *)

\* Largest number of bones of an armature.
MaxBones == 4

\* Largest number of vertex groups a vertex is assigned to.
MaxGroups == 5

\* Vertex weights are the multiples k/MaxWeight, k in 0..MaxWeight, of [0, 1].
MaxWeight == 2

\* Largest number of selected mesh objects, and of models of a file.
MaxModels == 2

\* Largest absolute value of a component of the dual part given to
\* dq_normalize.
MaxDual == 1

\* Largest absolute value of a coordinate of the tail of a bone.
MaxCoord == 1

\* Largest scale of the armature object.
MaxScale == 2

\* Largest number of characters of a name given to the string decoder.
MaxNameLen == 2

\* Largest number of triangles of a mesh, and of material slots of an object,
\* in the model of the model chunk.
MaxTris == 2
MaxSlots == 2

\* Largest number of bones of the armature in the model of the node loop.
MaxNodeBones == 3

\* A V coordinate is a number of parts of MaxUv: MaxUv stands for V = 1.
MaxUv == 2

\* Largest number of NLA tracks of the armature object.
MaxTracks == 2

\* Largest frame of a keyframe, of a frame range and of the frame cursor.
MaxFrame == 2

\* Largest number of textures of a file.
MaxTextures == 2

-----------------------------------------------------------------------------
(* Python values *)

\* The placeholder smf_node_list inserts (bones.insert(pos, None)).
None == 0

\* The value the rig loop overwrites a placeholder with (bones[...] = False).
False == 0 - 1

\* Python truthiness of an entry of the node list: a Bone object is truthy,
\* None and False are falsy.
Truthy(entry) == entry >= 1

\* list.index(x): 0-based position of the first element equal to x.
ListIndex(list, x) ==
    (CHOOSE i \in 1..Len(list) :
        /\ list[i] = x
        /\ \A j \in 1..(i - 1) : list[j] # x) - 1

\* list.insert(pos, x) with 0-based pos.
ListInsert(list, pos, x) ==
    SubSeq(list, 1, pos) \o <<x>> \o SubSeq(list, pos + 1, Len(list))

\* dict[key] = value
DictSet(dict, key, value) ==
    [k \in (DOMAIN dict) \cup {key} |-> IF k = key THEN value ELSE dict[k]]

\* The empty dict {}.
EmptyDict == [k \in {} |-> 0]

-----------------------------------------------------------------------------
(* The components at rest *)

\* The rig part is not running.
RigIdle ==
    /\ rig_pc = "idle"
    /\ has_rig = FALSE
    /\ armature = <<>>
    /\ bones = <<>>
    /\ bindmap = EmptyDict
    /\ nodeNum = 0 - 1
    /\ rig_nodes = <<>>
    /\ n = 0

\* smf_skin_indices_weights is not running.
SkinIdle ==
    /\ skin_pc = "idle"
    /\ vertices = <<>>
    /\ index_map = EmptyDict
    /\ num_influences = 4
    /\ indices = <<>>
    /\ weights = <<>>
    /\ v = 0

\* No encoder is running.
ContainerIdle ==
    /\ enc = "v11"
    /\ long_size = 4
    /\ export_textures = FALSE
    /\ export_nla_tracks = FALSE
    /\ model_list = <<>>
    /\ has_anim_data = FALSE
    /\ anim_frames = <<>>
    /\ ct_pc = "idle"
    /\ built = 0
    /\ chunks = EmptyDict
    /\ header_bytes = <<>>
    /\ offsets = <<>>
    /\ file = <<>>

\* export_smf_file is not running on a scene.
SceneIdle ==
    /\ sc_pc = "idle"
    /\ pose_position = "POSE"
    /\ action = None
    /\ mute = <<>>
    /\ frame_current = 0
    /\ at_call = <<>>
    /\ export_type = "KFR"
    /\ subdivisions = 0
    /\ arma_mods = <<>>
    /\ animations = <<>>
    /\ obj_i = 0
    /\ anim_i = 0
    /\ arma_prev_position = None
    /\ action_prev = None
    /\ mute_prev = <<>>
    /\ frame_prev = 0
    /\ kf_times = <<>>
    /\ kf_end = <<>>
    /\ kf_i = 0
    /\ anim_export_mode = "CUR"
    /\ strips = <<>>
    /\ animation_bytes = <<>>

\* import_smf_file is not running.
ImportIdle ==
    /\ im_pc = "idle"
    /\ data = <<>>
    /\ create_new_materials_images = FALSE
    /\ reads = <<>>
    /\ versionNum = None
    /\ tex_i = 0
    /\ model_index = 0
    /\ img = <<>>
    /\ material_map = EmptyDict
    /\ images = <<>>
    /\ materials = <<>>
    /\ meshes = 0
    /\ objects = <<>>
    /\ edit_bones = 0

\* dq_normalize is not running.
DqIdle ==
    /\ dq_pc = "idle"
    /\ dq = <<>>
    /\ dq_result = <<>>

\* apply_world_matrix is not running.
MatrixIdle ==
    /\ mx_pc = "idle"
    /\ matrix = <<>>
    /\ matrix_world = <<>>
    /\ mat_w = <<>>

\* texture_image_from_node_tree is not running.
TextureIdle ==
    /\ tx_pc = "idle"
    /\ material = <<>>
    /\ image = "None"
    /\ reports = <<>>
    /\ sub_img_name = <<>>
    /\ unique_images = {}

\* unpack_string_from is not running.
StringIdle ==
    /\ str_pc = "idle"
    /\ str_name = <<>>
    /\ str_data = <<>>
    /\ str_start = 0
    /\ str_offset = 0
    /\ str_result = <<>>
    /\ str_next = 0

\* dq_get_product is not running.
ProductIdle ==
    /\ pr_pc = "idle"
    /\ dq1 = <<>>
    /\ dq2 = <<>>
    /\ dq_product = <<>>

\* The model chunk is not being written.
ModelChunkIdle ==
    /\ mc_pc = "idle"
    /\ mesh_objects = <<>>
    /\ mc_obj = 0
    /\ model_number = 0
    /\ model_bytes = <<>>

\* The node loop of write_animation_data is not running.
NodeLoopIdle ==
    /\ nl_pc = "idle"
    /\ pose_bones = <<>>
    /\ node_list = <<>>
    /\ node_i = 0
    /\ pose_bone = None
    /\ node_mats = <<>>

\* The vertex loop of export_smf_file is not running.
VertexLoopIdle ==
    /\ uv_pc = "idle"
    /\ invert_uv_v = FALSE
    /\ loop_triangles = <<>>
    /\ uv_data = <<>>
    /\ uv_orig = <<>>
    /\ face_i = 0
    /\ corner_i = 0
    /\ vertex_records = <<>>

\* None of the functions that are modelled on their own is running.
FunctionsIdle ==
    /\ DqIdle
    /\ MatrixIdle
    /\ TextureIdle
    /\ StringIdle
    /\ ProductIdle
    /\ ModelChunkIdle
    /\ NodeLoopIdle
    /\ VertexLoopIdle

-----------------------------------------------------------------------------
(* Armatures *)

\* Bone names; Blender keeps the names of the bones of one armature unique.
BoneNames == <<"Bone", "Bone.001", "Bone.002", "Bone.003", "Bone.004", "Bone.005">>

\* The armatures of N bones. armature.bones lists the bones in hierarchy
\* order, a parent before its children; parent = 0 stands for "no parent".
\* Bone i of the armature is identified by its position i.
Armatures(N) ==
    { [i \in 1..N |-> [name |-> BoneNames[i],
                       parent |-> p[i],
                       use_connect |-> c[i]]] :
        p \in {q \in [1..N -> 0..(N - 1)] : \A i \in 1..N : q[i] < i},
        c \in [1..N -> BOOLEAN] }

AllArmatures == UNION { Armatures(N) : N \in 0..MaxBones }

\* bone.parent is set
HasParent(arm, b) == arm[b].parent # 0

-----------------------------------------------------------------------------
(* smf_node_list *)

RECURSIVE NodeListFrom(_, _, _)
\* The loop "for bone in bones_orig": k is the position in bones_orig,
\* list the working copy.
NodeListFrom(arm, k, list) ==
    IF k > Len(arm) THEN list
    ELSE IF HasParent(arm, k) /\ ~arm[k].use_connect
         THEN NodeListFrom(arm, k + 1, ListInsert(list, ListIndex(list, k), None))
         ELSE NodeListFrom(arm, k + 1, list)

smf_node_list(arm) == NodeListFrom(arm, 1, [i \in 1..Len(arm) |-> i])

-----------------------------------------------------------------------------
(* smf_bindmap *)

\* smf_bones = [b for b in bones if b and b.parent]
RECURSIVE SmfBones(_, _)
SmfBones(arm, list) ==
    IF list = <<>> THEN <<>>
    ELSE LET b == Head(list) IN
         IF Truthy(b) /\ HasParent(arm, b)
         THEN <<b>> \o SmfBones(arm, Tail(list))
         ELSE SmfBones(arm, Tail(list))

RECURSIVE BindmapFrom(_, _, _, _)
\* The loop "for node in smf_bones".
BindmapFrom(arm, smf_bones, map, sample_bone_ind) ==
    IF smf_bones = <<>> THEN map
    ELSE BindmapFrom(arm, Tail(smf_bones),
                     DictSet(map, arm[Head(smf_bones)].name, sample_bone_ind),
                     sample_bone_ind + 1)

\* A bindmap whose numbering starts at 1 instead of 0.
smf_bindmap_from_one(arm, list) == BindmapFrom(arm, SmfBones(arm, list), EmptyDict, 1)

smf_bindmap(arm, list) == BindmapFrom(arm, SmfBones(arm, list), EmptyDict, 0)

-----------------------------------------------------------------------------
(* The rig chunk of export_smf_file *)

RigInit ==
    /\ rig_pc = "start"
    /\ has_rig \in BOOLEAN
    /\ armature \in AllArmatures
    /\ (~has_rig => armature = <<>>)
    /\ bones = <<>>
    /\ bindmap = EmptyDict
    /\ nodeNum = 0 - 1
    /\ rig_nodes = <<>>
    /\ n = 0
    /\ SkinIdle
    /\ ContainerIdle
    /\ SceneIdle
    /\ ImportIdle
    /\ FunctionsIdle

\* "if not rig": no armature selected, an empty rig is written.
RigNoArmature ==
    /\ rig_pc = "start"
    /\ ~has_rig
    /\ nodeNum' = 0
    /\ rig_pc' = "rig_done"
    /\ UNCHANGED <<has_rig, armature, bones, bindmap, rig_nodes, n>>
    /\ UNCHANGED rig_frame

\* A node count taken from the armature's bones, placeholders left out.
NodeCountOfArmature(arm, list) == Len(arm)

\* pack('I', len(bones)) (line 191)
NodeCount(arm, list) == Len(list)

\* Lines 185-191: node list, bindmap, node count.
RigBegin ==
    /\ rig_pc = "start"
    /\ has_rig
    /\ bones' = smf_node_list(armature)
    /\ bindmap' = smf_bindmap(armature, bones')
    /\ nodeNum' = NodeCount(armature, bones')
    /\ n' = 0
    /\ rig_pc' = "rig_loop"
    /\ UNCHANGED <<has_rig, armature, rig_nodes>>
    /\ UNCHANGED rig_frame

\* A parent index taken from the armature's bone order, placeholders not
\* counted.
ParentIndexInArmature(arm, list, b) ==
    IF ~HasParent(arm, b) THEN 0 ELSE arm[b].parent - 1

\* parent_bone_index of line 205
ParentIndexOf(arm, list, b) ==
    IF ~HasParent(arm, b) THEN 0 ELSE ListIndex(list, arm[b].parent)

\* A rig loop without the re-parenting of lines 208-212.
NeverAfterPlaceholder(arm, bone, b) == FALSE

\* bone and b.parent and not b.use_connect (line 208)
AfterPlaceholder(arm, bone, b) ==
    Truthy(bone) /\ HasParent(arm, b) /\ ~arm[b].use_connect

\* One iteration of "for n, bone in enumerate(bones)" (lines 202-229).
RigNode ==
    /\ rig_pc = "rig_loop"
    /\ n < Len(bones)
    /\ LET bone == bones[n + 1]
           b == IF Truthy(bone) THEN bone ELSE bones[n + 2]
           detached == AfterPlaceholder(armature, bone, b)
           parent_bone_index == IF detached THEN n - 1
                                ELSE ParentIndexOf(armature, bones, b)
           connected == IF detached THEN TRUE ELSE armature[b].use_connect
           position_attr == IF Truthy(bone) THEN "tail_local" ELSE "head_local"
       IN /\ bones' = IF detached
                      THEN [bones EXCEPT ![parent_bone_index + 1] = False]
                      ELSE bones
          /\ rig_nodes' = Append(rig_nodes,
                                 [parent |-> parent_bone_index,
                                  connected |-> connected,
                                  locked |-> FALSE,
                                  position_attr |-> position_attr,
                                  bone |-> b])
    /\ n' = n + 1
    /\ UNCHANGED <<rig_pc, has_rig, armature, bindmap, nodeNum>>
    /\ UNCHANGED rig_frame

\* The loop is exhausted.
RigEnd ==
    /\ rig_pc = "rig_loop"
    /\ n = Len(bones)
    /\ rig_pc' = "rig_done"
    /\ UNCHANGED <<has_rig, armature, bones, bindmap, nodeNum, rig_nodes, n>>
    /\ UNCHANGED rig_frame

RigNext == RigNoArmature \/ RigBegin \/ RigNode \/ RigEnd

SpecRig == RigInit /\ [][RigNext]_vars


-----------------------------------------------------------------------------
(* smf_skin_indices_weights *)

\* The vertex group assignments v.groups of one vertex: the vertex is assigned
\* to the groups 0..k-1, each with a weight in [0, 1] (here k/MaxWeight, held
\* as the integer k: the function only uses ratios of weights).
VertexGroupLists ==
    UNION { [1..k -> 0..MaxWeight] : k \in 0..MaxGroups }

VGroups(wts) == [i \in 1..Len(wts) |-> [group |-> i - 1, weight |-> wts[i]]]

\* The meshes: one weighted vertex, before or after a vertex without groups.
Meshes ==
    UNION { { <<VGroups(w), <<>>>>, <<<<>>, VGroups(w)>> } :
            w \in VertexGroupLists }

\* vgid_to_smf_map (lines 283-286): the vertex groups named like a bone of the
\* bindmap, each with that bone's index; here every group, or every group but
\* group 1. The map is injective, as the bindmap and the vertex group names
\* are.
IndexMaps ==
    { [g \in (0..(MaxGroups - 1)) \ U |-> MaxGroups - 1 - g] :
        U \in {{}, {1}} }

RECURSIVE SeqFilterMapped(_, _)
\* [group for group in v.groups if group.group in index_map.keys()]
SeqFilterMapped(groups, map) ==
    IF groups = <<>> THEN <<>>
    ELSE IF Head(groups).group \in DOMAIN map
         THEN <<Head(groups)>> \o SeqFilterMapped(Tail(groups), map)
         ELSE SeqFilterMapped(Tail(groups), map)

RECURSIVE SeqFilterPositive(_)
\* filter(lambda group: (group.weight > 0.0), mod_groups)
SeqFilterPositive(groups) ==
    IF groups = <<>> THEN <<>>
    ELSE IF Head(groups).weight > 0
         THEN <<Head(groups)>> \o SeqFilterPositive(Tail(groups))
         ELSE SeqFilterPositive(Tail(groups))

RECURSIVE InsertByWeight(_, _)
\* g put into the ascending list after every element of weight <= g.weight.
InsertByWeight(sorted, g) ==
    IF sorted = <<>> THEN <<g>>
    ELSE IF Head(sorted).weight <= g.weight
         THEN <<Head(sorted)>> \o InsertByWeight(Tail(sorted), g)
         ELSE <<g>> \o sorted

RECURSIVE SortedByWeight(_, _)
\* sorted(groups, key=lambda group: group.weight): ascending and stable.
SortedByWeight(groups, acc) ==
    IF groups = <<>> THEN acc
    ELSE SortedByWeight(Tail(groups), InsertByWeight(acc, Head(groups)))

\* The slice [0:num] of the v10 encoder: the groups of LOWEST weight.
SliceHead(list, num) ==
    IF Len(list) <= num THEN list ELSE SubSeq(list, 1, num)

\* The slice list[-num:] (num >= 1): the last num elements, all when fewer.
SliceTail(list, num) ==
    IF Len(list) <= num THEN list
    ELSE SubSeq(list, Len(list) - num + 1, Len(list))

RECURSIVE SumWeights(_)
\* sum([g.weight for g in groups])
SumWeights(groups) ==
    IF groups = <<>> THEN 0 ELSE Head(groups).weight + SumWeights(Tail(groups))

\* int(w if w <= 255 else 255) with w = weight/s*255: int() truncates. The
\* quotient is taken exactly (rational arithmetic).
WeightByte(weight, s) ==
    LET w == (weight * 255) \div s
    IN  IF w <= 255 THEN w ELSE 255

\* The groups kept for a vertex (lines 98-105).
KeptGroups(groups, map, num) ==
    SliceTail(SortedByWeight(SeqFilterPositive(SeqFilterMapped(groups, map)), <<>>),
              num)

\* The initial rows of lines 94-95.
InitialIndices == <<0, 0, 0, 0>>
InitialWeights == <<1, 0, 0, 0>>

SkinInit ==
    /\ skin_pc = "start"
    /\ vertices \in Meshes
    /\ index_map \in IndexMaps
    /\ num_influences \in 1..4
    /\ indices = <<>>
    /\ weights = <<>>
    /\ v = 0
    /\ RigIdle
    /\ ContainerIdle
    /\ SceneIdle
    /\ ImportIdle
    /\ FunctionsIdle

\* Lines 93-95: one row per vertex.
SkinBegin ==
    /\ skin_pc = "start"
    /\ indices' = [i \in 1..Len(vertices) |-> InitialIndices]
    /\ weights' = [i \in 1..Len(vertices) |-> InitialWeights]
    /\ v' = 0
    /\ skin_pc' = "loop"
    /\ UNCHANGED <<vertices, index_map, num_influences>>
    /\ UNCHANGED skin_frame

\* One iteration of "for v in vertices" (lines 96-111).
SkinVertex ==
    /\ skin_pc = "loop"
    /\ v < Len(vertices)
    /\ LET groups == KeptGroups(vertices[v + 1], index_map, num_influences)
           s == SumWeights(groups)
       IN /\ indices' = [indices EXCEPT ![v + 1] =
                 [index \in 1..4 |->
                     IF index <= Len(groups)
                     THEN index_map[groups[index].group]
                     ELSE @[index]]]
          /\ weights' = [weights EXCEPT ![v + 1] =
                 [index \in 1..4 |->
                     IF index <= Len(groups)
                     THEN WeightByte(groups[index].weight, s)
                     ELSE @[index]]]
    /\ v' = v + 1
    /\ UNCHANGED <<skin_pc, vertices, index_map, num_influences>>
    /\ UNCHANGED skin_frame

\* return (indices, weights)
SkinReturn ==
    /\ skin_pc = "loop"
    /\ v = Len(vertices)
    /\ skin_pc' = "done"
    /\ UNCHANGED <<vertices, index_map, num_influences, indices, weights, v>>
    /\ UNCHANGED skin_frame

SkinNext == SkinBegin \/ SkinVertex \/ SkinReturn

SpecSkin == SkinInit /\ [][SkinNext]_vars

-----------------------------------------------------------------------------
(* Byte sizes (module struct, native mode) *)

\* A field of a byte buffer: what it holds, its value where one is written,
\* and its size in bytes.
Field(kind, val, size) == [kind |-> kind, val |-> val, size |-> size]

\* pack('B', ...)
SizeB == 1
\* pack('H', ...)
SizeH == 2
\* pack('I', ...) and calcsize('I')
SizeI == 4
\* pack('f', ...)
SizeF == 4

\* SMF_format_struct = Struct("ffffffffBBBBBBBBBBBB"): 8 floats and 12 bytes.
SMF_format_size == 44

RECURSIVE Utf8Len(_)
\* len(bytearray(name, 'utf-8')) for a string given as its code points.
Utf8Len(name) ==
    IF name = <<>> THEN 0
    ELSE (IF Head(name) < 128 THEN 1
          ELSE IF Head(name) < 2048 THEN 2
          ELSE IF Head(name) < 65536 THEN 3 ELSE 4) + Utf8Len(Tail(name))

\* bytearray(name + "\0", 'utf-8')
StringField(kind, name) == Field(kind, name, Utf8Len(name) + 1)

RECURSIVE ByteLen(_)
\* len(buffer)
ByteLen(buffer) ==
    IF buffer = <<>> THEN 0 ELSE Head(buffer).size + ByteLen(Tail(buffer))

RECURSIVE Flatten(_)
\* The concatenation of a sequence of buffers.
Flatten(buffers) ==
    IF buffers = <<>> THEN <<>> ELSE Head(buffers) \o Flatten(Tail(buffers))

-----------------------------------------------------------------------------
(* The scene the encoders read *)

\* Names as sequences of code points: "Mat", "Img" + e-acute, "Act", "".
MatName == <<77, 97, 116>>
ImgName == <<73, 109, 103, 233>>
ActName == <<65, 99, 116>>
EmptyName == <<>>

\* The image of every textured material: 2 x 1 pixels, RGBA.
ImgSize == <<2, 1>>
ImgPixels == ImgSize[1] * ImgSize[2] * 4

\* The selected mesh objects: each has tris triangles (after triangulation)
\* and one material slot holding no material (mat = 0) or the material "Mat",
\* whose node tree leads to the image ImgName (mat = 1).
ModelLists ==
    UNION { [1..k -> [tris : {0, 1}, mat : {0, 1}]] : k \in 0..MaxModels }

\* The armatures of the container model: chains of up to two bones.
ContainerArmatures ==
    UNION { {a \in Armatures(N) : \A i \in 1..N : a[i].parent = i - 1} :
            N \in 0..2 }

\* The animations: the number of frames of each. For the v10 encoder with
\* export_nla_tracks these are the NLA tracks, 0 standing for a track without
\* strips. For the v11 encoder 0 stands for an action without keyframe point.
AnimLists(e, nla) ==
    IF e = "v10" /\ nla
    THEN {<<>>, <<0>>, <<2>>, <<1, 0>>}
    ELSE IF e = "v11"
    THEN {<<>>, <<1>>, <<1, 2>>, <<0>>, <<1, 0>>}
    ELSE {<<>>, <<1>>, <<1, 2>>}

\* What is at filepath before the export: nothing, or a file written earlier.
ExistingFile == <<[chunk |-> "existing", bytes |-> <<Field("byte", 0, SizeB)>>]>>

\* Some mesh object uses the material (the unique material/image exists).
MaterialUsed(models) == \E i \in 1..Len(models) : models[i].mat = 1

-----------------------------------------------------------------------------
(* The chunks of the v11 encoder, export_smf_file *)

RigBytes11(rig, arm) ==
    IF ~rig THEN <<Field("nodeNum", 0, SizeI)>>
    ELSE LET list == smf_node_list(arm) IN
         <<Field("nodeNum", Len(list), SizeI)>> \o
         Flatten([i \in 1..Len(list) |->
            <<Field("dq", i - 1, 8 * SizeF), Field("parent", i - 1, SizeI),
              Field("connected", i - 1, SizeB), Field("locked", i - 1, SizeB),
              Field("ik_axis", i - 1, 3 * SizeF)>>])

\* The objects that give a model sub-block: a material slot used by a face.
SubBlocks11(models) == SelectSeq(models, LAMBDA m : m.tris > 0)

ModelBytes11(models) ==
    LET subs == SubBlocks11(models) IN
    <<Field("count", Len(subs), SizeB)>> \o
    Flatten([i \in 1..Len(subs) |->
        <<Field("length", SMF_format_size * 3 * subs[i].tris, SizeI),
          Field("vertices", subs[i].tris, SMF_format_size * 3 * subs[i].tris),
          StringField("mat_name", IF subs[i].mat = 1 THEN MatName ELSE EmptyName),
          StringField("img_name", IF subs[i].mat = 1 THEN ImgName ELSE EmptyName),
          Field("visible", 1, SizeB)>>])

\* unique_images: the images of the materials of the sub-blocks written.
TextureBytes11(models, textures) ==
    IF textures
    THEN IF MaterialUsed(SubBlocks11(models))
         THEN <<Field("count", 1, SizeB), StringField("name", ImgName),
                Field("size", ImgSize, 2 * SizeH),
                Field("pixels", ImgPixels, ImgPixels * SizeB)>>
         ELSE <<Field("count", 0, SizeB)>>
    ELSE <<Field("count", 0, SizeB)>>

\* One animation record of write_animation_data for frames frames, nodes
\* nodes, and floats floats per node and frame.
AnimRecord(frames, nodes, floats) ==
    <<StringField("animName", ActName), Field("loop", 1, SizeB),
      Field("playTime", frames, SizeF), Field("interpolation", 1, SizeB),
      Field("sampleFrameMultiplier", 1, SizeB),
      Field("animFrameNumber", frames, SizeI)>> \o
    Flatten([f \in 1..frames |->
        <<Field("time", f, SizeF), Field("nodes", nodes, nodes * floats * SizeF)>>])

AnimationBytes11(rig, arm, anims) ==
    <<Field("count", Len(anims), SizeB)>> \o
    Flatten([i \in 1..Len(anims) |->
        AnimRecord(anims[i], Len(smf_node_list(arm)), 8)])

-----------------------------------------------------------------------------
(* The chunks of the v10 encoder, export_smf of smf.py *)

\* unique_images is filled only with export_textures.
TextureBytes10(models, textures) ==
    IF textures /\ MaterialUsed(models)
    THEN <<Field("count", 1, SizeB), StringField("name", ImgName),
           Field("size", ImgSize, 2 * SizeH),
           Field("pixels", ImgPixels, ImgPixels * SizeB)>>
    ELSE <<Field("count", 0, SizeB)>>

\* "Write an empty chunk for materials": len(unique_materials) alone.
MaterialBytes10(models) ==
    <<Field("count", IF MaterialUsed(models) THEN 1 ELSE 0, SizeB)>>

RigBytes10(rig, arm) ==
    IF ~rig THEN <<Field("nodeNum", 0, SizeB)>>
    ELSE LET list == smf_node_list(arm) IN
         <<Field("nodeNum", Len(list), SizeB)>> \o
         Flatten([i \in 1..Len(list) |->
            <<Field("matrix", i - 1, 16 * SizeF), Field("parent", i - 1, SizeB),
              Field("connected", i - 1, SizeB), Field("locked", i - 1, SizeB),
              Field("ik_axis", i - 1, 3 * SizeF)>>])

\* One sub-block per mesh object, faces or not.
ModelBytes10(models, textures) ==
    <<Field("count", Len(models), SizeB)>> \o
    Flatten([i \in 1..Len(models) |->
        <<Field("length", 3 * models[i].tris * SMF_format_size, SizeI),
          Field("vertices", models[i].tris, 3 * models[i].tris * SMF_format_size),
          StringField("mat_name", IF models[i].mat = 1 THEN MatName ELSE EmptyName),
          StringField("img_name",
              IF models[i].mat = 1 /\ textures THEN ImgName ELSE EmptyName),
          Field("visible", 1, SizeB)>>])

\* With export_nla_tracks and no animation data or no NLA track nothing at
\* all is written; a track without strips is counted and gets no record.
\* Without export_nla_tracks the one record is that of the current action.
AnimationBytes10(arm, nla, anim_data, anims) ==
    LET nodes == Len(smf_node_list(arm)) IN
    IF nla
    THEN IF anim_data /\ anims # <<>>
         THEN <<Field("count", Len(anims), SizeB)>> \o
              Flatten([i \in 1..Len(anims) |->
                  IF anims[i] > 0 THEN AnimRecord(anims[i], nodes, 16) ELSE <<>>])
         ELSE <<>>
    ELSE IF anims = <<>>
         THEN <<Field("count", 0, SizeB)>>
         ELSE <<Field("count", 1, SizeB)>> \o AnimRecord(anims[1], nodes, 16)

-----------------------------------------------------------------------------
(* The chunks of the v7 encoder, ExportSMF.execute of io_export_gms_smf.py *)

\* unsupported_rig: a bone with a parent that is not connected to it.
unsupported_rig(arm) ==
    \E b \in 1..Len(arm) : HasParent(arm, b) /\ ~arm[b].use_connect

\* rig after the check: None when the rig is unsupported.
Rig7(rig, arm) == rig /\ ~unsupported_rig(arm)

TextureBytes7(models) ==
    IF MaterialUsed(models)
    THEN <<Field("count", 1, SizeB), StringField("name", ImgName),
           Field("size", ImgSize, 2 * SizeH),
           Field("pixels", ImgPixels, ImgPixels * SizeB)>>
    ELSE <<Field("count", 0, SizeB)>>

\* The material is not shadeless: mat_type 2 and its eight bytes.
MaterialBytes7(models) ==
    IF MaterialUsed(models)
    THEN <<Field("count", 1, SizeB), StringField("name", MatName),
           Field("type", 2, SizeB), Field("effects", 0, 8 * SizeB)>>
    ELSE <<Field("count", 0, SizeB)>>

\* No count byte; pack('L', 0) twice closes each model.
ModelBytes7(models, lsize) ==
    Flatten([i \in 1..Len(models) |->
        <<Field("length", 3 * models[i].tris * SMF_format_size, SizeI),
          Field("vertices", models[i].tris, 3 * models[i].tris * SMF_format_size),
          StringField("mat_name", IF models[i].mat = 1 THEN MatName ELSE EmptyName),
          StringField("tex_name", IF models[i].mat = 1 THEN ImgName ELSE EmptyName),
          Field("visible", 1, SizeB),
          Field("skinning", 0, 2 * lsize)>>])

NodeBytes7 ==
    <<Field("nodeTypeNum", 0, SizeB), Field("nodeNum", 0, SizeB),
      Field("ambient", 0, 3 * SizeB)>>

CollisionBytes7(lsize) == <<Field("colBuffSize", 0, lsize)>>

\* The index in node_list of the tail node of bone b: every bone up to b has
\* one node and every root bone up to b one more (the children of a root
\* follow it in armature.bones).
NodeIndex7(arm, b) ==
    b - 1 + Cardinality({r \in 1..b : ~HasParent(arm, r)})

\* The nodes of the v7 rig chunk, [parent, connected]: a root bone gives its
\* head (parent 0, not connected) and its tail (parent: the head), any other
\* bone its tail (parent: node_list.index(bone.parent.name)).
Nodes7(arm) ==
    Flatten([b \in 1..Len(arm) |->
        IF ~HasParent(arm, b)
        THEN <<[parent |-> 0, connected |-> 0],
               [parent |-> NodeIndex7(arm, b) - 1, connected |-> 1]>>
        ELSE <<[parent |-> NodeIndex7(arm, arm[b].parent), connected |-> 1]>>])

\* Two nodes per root bone, one per other bone.
RigBytes7(rig, arm) ==
    IF ~Rig7(rig, arm) THEN <<Field("nodeNum", 0, SizeB)>>
    ELSE LET root_bones == {b \in 1..Len(arm) : ~HasParent(arm, b)}
             nodes == Len(arm) + Cardinality(root_bones)
         IN  <<Field("nodeNum", nodes, SizeB)>> \o
             Flatten([i \in 1..nodes |->
                <<Field("dq", i - 1, 8 * SizeF),
                  Field("parent", Nodes7(arm)[i].parent, SizeB),
                  Field("connected", Nodes7(arm)[i].connected, SizeB)>>])

\* anim is the current action of the exported rig.
AnimationBytes7(rig, arm, anims) ==
    IF ~Rig7(rig, arm) \/ anims = <<>>
    THEN <<Field("count", 0, SizeB)>>
    ELSE <<Field("count", 1, SizeB), StringField("animName", ActName),
           Field("keyframeNum", 0, SizeB)>>

SelectionBytes7 == <<Field("selNum", 0, SizeB)>>

-----------------------------------------------------------------------------
(* The encoders: chunk order, header, file *)

\* An encoder that builds its chunk buffers in the order it writes them.
BuildOrder_as_written(e) ==
    CASE e = "v11" -> <<"tex", "mod", "rig", "ani">>
      [] e = "v10" -> <<"tex", "mat", "mod", "rig", "ani">>
      [] e = "v7"  -> <<"tex", "mat", "mod", "nod", "col", "rig", "ani", "sel">>

\* The order in which the encoder builds its chunk buffers.
BuildOrder(e) ==
    CASE e = "v11" -> <<"rig", "mod", "tex", "ani">>
      [] e = "v10" -> <<"tex", "mat", "rig", "mod", "ani">>
      [] e = "v7"  -> <<"tex", "mat", "mod", "nod", "col", "rig", "ani", "sel">>

\* offsets = (tex_pos, mod_pos, ...): the chunk of each slot of the table.
OffsetOrder(e) ==
    CASE e = "v11" -> <<"tex", "mod", "rig", "ani">>
      [] e = "v10" -> <<"tex", "mat", "mod", "rig", "ani">>
      [] e = "v7"  -> <<"tex", "mat", "mod", "nod", "col", "rig", "ani", "sel">>

\* The file.write calls that follow file.write(header_bytes).
WriteOrder(e) ==
    CASE e = "v11" -> <<"tex", "mod", "rig", "ani">>
      [] e = "v10" -> <<"tex", "mat", "mod", "rig", "ani">>
      [] e = "v7"  -> <<"tex", "mat", "mod", "nod", "col", "rig", "ani", "sel">>

\* The buffer the encoder builds for chunk c.
ChunkBytes(e, c) ==
    CASE e = "v11" /\ c = "rig" -> RigBytes11(has_rig, armature)
      [] e = "v11" /\ c = "mod" -> ModelBytes11(model_list)
      [] e = "v11" /\ c = "tex" -> TextureBytes11(model_list, export_textures)
      [] e = "v11" /\ c = "ani" -> AnimationBytes11(has_rig, armature, anim_frames)
      [] e = "v10" /\ c = "tex" -> TextureBytes10(model_list, export_textures)
      [] e = "v10" /\ c = "mat" -> MaterialBytes10(model_list)
      [] e = "v10" /\ c = "rig" -> RigBytes10(has_rig, armature)
      [] e = "v10" /\ c = "mod" -> ModelBytes10(model_list, export_textures)
      [] e = "v10" /\ c = "ani" ->
            AnimationBytes10(armature, export_nla_tracks, has_anim_data, anim_frames)
      [] e = "v7" /\ c = "tex" -> TextureBytes7(model_list)
      [] e = "v7" /\ c = "mat" -> MaterialBytes7(model_list)
      [] e = "v7" /\ c = "mod" -> ModelBytes7(model_list, long_size)
      [] e = "v7" /\ c = "nod" -> NodeBytes7
      [] e = "v7" /\ c = "col" -> CollisionBytes7(long_size)
      [] e = "v7" /\ c = "rig" -> RigBytes7(has_rig, armature)
      [] e = "v7" /\ c = "ani" -> AnimationBytes7(has_rig, armature, anim_frames)
      [] e = "v7" /\ c = "sel" -> SelectionBytes7

\* SMF_header_size of the v7 encoder.
SMF_header_size == 79

\* len("SMF_v11_by_Snidr_and_Bart"), len("SMF_v10_by_Snidr_and_Bart") and
\* len("SnidrsModelFormat").
MagicLen(e) == IF e = "v7" THEN 17 ELSE 25

\* header_bytes before the offsets are packed: the magic string and its
\* terminator, and pack('f', SMF_version) in the v7 encoder.
HeaderStart(e) ==
    IF e = "v7"
    THEN <<Field("magic", e, MagicLen(e) + 1), Field("version", 7, SizeF)>>
    ELSE <<Field("magic", e, MagicLen(e) + 1)>>

\* What follows the offsets in the header.
HeaderRest(e, models) ==
    IF e = "v7"
    THEN <<Field("placeholder", 0, 2 * SizeI), Field("no_models", Len(models), SizeB),
           Field("center_size", 0, 4 * SizeF)>>
    ELSE <<Field("placeholder", 0, SizeI)>>

\* A tex_pos that counts the offsets and forgets the placeholder.
tex_pos_without_placeholder(e, header) ==
    IF e = "v7" THEN SMF_header_size - 2 * SizeI
    ELSE ByteLen(header) + Len(OffsetOrder(e)) * SizeI

\* tex_pos: len(header_bytes) + calcsize('IIIII') (v11),
\* len(header_bytes) + calcsize('IIIIII') (v10), SMF_header_size (v7).
tex_pos(e, header) ==
    IF e = "v7" THEN SMF_header_size
    ELSE ByteLen(header) + (Len(OffsetOrder(e)) + 1) * SizeI

RECURSIVE OffsetsFrom(_, _, _)
\* mod_pos = tex_pos + len(texture_bytes), rig_pos = mod_pos + len(...), ...:
\* the tuple offsets.
OffsetsFrom(order, bufs, pos) ==
    IF order = <<>> THEN <<>>
    ELSE <<pos>> \o OffsetsFrom(Tail(order), bufs, pos + ByteLen(bufs[Head(order)]))

\* The scenes of the container model.
ContainerInit ==
    /\ enc \in {"v7", "v10", "v11"}
    /\ long_size \in (IF enc = "v7" THEN {4, 8} ELSE {4})
    /\ export_textures \in (IF enc = "v7" THEN {FALSE} ELSE BOOLEAN)
    /\ export_nla_tracks \in (IF enc = "v10" THEN BOOLEAN ELSE {FALSE})
    /\ model_list \in ModelLists
    /\ has_rig \in BOOLEAN
    /\ armature \in (IF has_rig THEN ContainerArmatures ELSE {<<>>})
    /\ has_anim_data \in (IF has_rig THEN BOOLEAN ELSE {FALSE})
    /\ anim_frames \in (IF has_anim_data THEN AnimLists(enc, export_nla_tracks)
                        ELSE {<<>>})
    /\ ct_pc = "build"
    /\ built = 0
    /\ chunks = EmptyDict
    /\ header_bytes = <<>>
    /\ offsets = <<>>
    /\ file \in {<<>>, ExistingFile}
    /\ rig_pc = "idle"
    /\ bones = <<>>
    /\ bindmap = EmptyDict
    /\ nodeNum = 0 - 1
    /\ rig_nodes = <<>>
    /\ n = 0
    /\ SkinIdle
    /\ SceneIdle
    /\ ImportIdle
    /\ FunctionsIdle

\* The encoder raises before it can build chunk c:
\*  v11: kf_times[len(kf_times)-1] with kf_times empty, for an action without
\*       keyframe point;
\*  v10: node_list(rig_object) reads rig_object.data and rig_object is None
\*       when no armature is selected;
\*  v7:  rig_object.animation_data.action with animation_data None.
Raises(e, c) ==
    \/ e = "v11" /\ c = "ani" /\ \E i \in 1..Len(anim_frames) : anim_frames[i] = 0
    \/ e = "v10" /\ c = "rig" /\ ~has_rig
    \/ e = "v7" /\ c = "tex" /\ has_rig /\ ~has_anim_data

\* An encoder that opens the file for writing before it builds its chunks.
BuildChunk_file_opened_first ==
    /\ ct_pc = "build"
    /\ built < Len(BuildOrder(enc))
    /\ LET c == BuildOrder(enc)[built + 1] IN
       /\ ~Raises(enc, c)
       /\ chunks' = DictSet(chunks, c, ChunkBytes(enc, c))
    /\ built' = built + 1
    /\ file' = <<>>
    /\ UNCHANGED <<enc, long_size, export_textures, export_nla_tracks, model_list,
                   has_anim_data, anim_frames, ct_pc, header_bytes, offsets>>
    /\ UNCHANGED ct_frame

\* The encoder builds its next chunk buffer.
BuildChunk ==
    /\ ct_pc = "build"
    /\ built < Len(BuildOrder(enc))
    /\ LET c == BuildOrder(enc)[built + 1] IN
       /\ ~Raises(enc, c)
       /\ chunks' = DictSet(chunks, c, ChunkBytes(enc, c))
    /\ built' = built + 1
    /\ UNCHANGED <<enc, long_size, export_textures, export_nla_tracks, model_list,
                   has_anim_data, anim_frames, ct_pc, header_bytes, offsets, file>>
    /\ UNCHANGED ct_frame

\* An exception leaves the encoder; no file is opened.
BuildRaises ==
    /\ ct_pc = "build"
    /\ built < Len(BuildOrder(enc))
    /\ Raises(enc, BuildOrder(enc)[built + 1])
    /\ ct_pc' = "failed"
    /\ UNCHANGED <<enc, long_size, export_textures, export_nla_tracks, model_list,
                   has_anim_data, anim_frames, built, chunks, header_bytes,
                   offsets, file>>
    /\ UNCHANGED ct_frame

\* "Now build header".
BuildHeader ==
    /\ ct_pc = "build"
    /\ built = Len(BuildOrder(enc))
    /\ LET start == HeaderStart(enc)
           offs == OffsetsFrom(OffsetOrder(enc), chunks, tex_pos(enc, start))
       IN /\ offsets' = offs
          /\ header_bytes' = start \o
                [i \in 1..Len(offs) |-> Field("offset", offs[i], SizeI)] \o
                HeaderRest(enc, model_list)
    /\ ct_pc' = "header"
    /\ UNCHANGED <<enc, long_size, export_textures, export_nla_tracks, model_list,
                   has_anim_data, anim_frames, built, chunks, file>>
    /\ UNCHANGED ct_frame

\* "Write everything to file": one entry of file per file.write call.
WriteFile ==
    /\ ct_pc = "header"
    /\ file' = <<[chunk |-> "header", bytes |-> header_bytes]>> \o
               [i \in 1..Len(WriteOrder(enc)) |->
                   [chunk |-> WriteOrder(enc)[i],
                    bytes |-> chunks[WriteOrder(enc)[i]]]]
    /\ ct_pc' = "written"
    /\ UNCHANGED <<enc, long_size, export_textures, export_nla_tracks, model_list,
                   has_anim_data, anim_frames, built, chunks, header_bytes, offsets>>
    /\ UNCHANGED ct_frame

ContainerNext == BuildChunk \/ BuildRaises \/ BuildHeader \/ WriteFile

SpecContainer == ContainerInit /\ [][ContainerNext]_vars

-----------------------------------------------------------------------------
(* The scene state export_smf_file changes and restores *)

\* The scene state the export changes.
SceneState == <<pose_position, action, mute, frame_current>>

\* What export_smf_file is given and does not change.
sc_inputs ==
    <<at_call, export_type, subdivisions, arma_mods, animations,
      anim_export_mode, strips>>

\* The actions: the x coordinates of the keyframe points of the fcurves, and
\* Action.frame_range (the range of the keyframes, or a manual frame range).
\* Keyframes may lie before frame 0.
ActionData ==
    { [keyframes |-> {}, frame_range |-> <<0, 0>>],
      [keyframes |-> {0}, frame_range |-> <<0, 0>>],
      [keyframes |-> {MaxFrame - 1, MaxFrame},
       frame_range |-> <<MaxFrame - 1, MaxFrame>>],
      [keyframes |-> {MaxFrame}, frame_range |-> <<0, MaxFrame>>],
      [keyframes |-> {0 - 1, MaxFrame}, frame_range |-> <<0 - 1, MaxFrame>>] }

RECURSIVE Dedup(_)
\* The keys of a dict filled from a list, in order of first insertion.
Dedup(list) ==
    IF list = <<>> THEN <<>>
    ELSE LET init == Dedup(SubSeq(list, 1, Len(list) - 1))
             last == list[Len(list)]
         IN  IF \E i \in 1..Len(init) : init[i] = last THEN init
             ELSE Append(init, last)

\* The keys of the dict animations: 'LNK' the actions of the strips of all
\* tracks, 'CUR' the current action if there is one, 'TRA' and 'SCN' nothing
\* (their branches are "pass").
ExportedIds(mode, act, strps) ==
    CASE mode = "LNK" -> Dedup(Flatten(strps))
      [] mode = "CUR" -> IF act # None THEN <<act>> ELSE <<>>
      [] OTHER -> <<>>

\* The data of the action with the given id: any of the above for action 1,
\* two keyframes on the last two frames for action 2.
ActionDataOf(id) ==
    IF id = 1 THEN ActionData
    ELSE { [keyframes |-> {MaxFrame - 1, MaxFrame},
            frame_range |-> <<MaxFrame - 1, MaxFrame>>] }

\* The values of the dict animations for the given keys.
AnimationDicts(ids) ==
    { [i \in 1..Len(ids) |-> [id |-> ids[i], keyframes |-> d[i].keyframes,
                               frame_range |-> d[i].frame_range]] :
      d \in { f \in [1..Len(ids) -> ActionData] :
                \A i \in 1..Len(ids) : f[i] \in ActionDataOf(ids[i]) } }

RECURSIVE SortedTimes(_)
\* sorted({p.co[0] ...}): the ascending list of a set of frames, as times.
SortedTimes(S) ==
    IF S = {} THEN <<>>
    ELSE LET m == CHOOSE x \in S : \A y \in S : x <= y
         IN  <<[num |-> m, den |-> 1]>> \o SortedTimes(S \ {m})

\* The list the 'SPL' branch builds:
\* frame_range[0] + (frame_range[1] - frame_range[0]) * i / subdivisions.
SampledTimes(frame_range, subdiv) ==
    [j \in 1..(subdiv + 1) |->
        [num |-> frame_range[1] * subdiv + (frame_range[2] - frame_range[1]) * (j - 1),
         den |-> subdiv]]

\* int(frame) of "subframe, frame = modf(kf_time)": towards zero.
IntFrame(t) ==
    IF t.num >= 0 THEN t.num \div t.den ELSE 0 - ((0 - t.num) \div t.den)

\* smf_kf_time = kf_time/frame_max, frame_max not 0, with a positive
\* denominator.
NormalizedTime(t, frame_max) ==
    IF frame_max.num > 0
    THEN [num |-> t.num * frame_max.den, den |-> t.den * frame_max.num]
    ELSE [num |-> 0 - (t.num * frame_max.den), den |-> 0 - (t.den * frame_max.num)]

\* The real part (w, x, y, z), times 25, of the quaternion to_quaternion()
\* gives for the node at a frame: the bone holds its pose over a frame and
\* turns about X from frame to frame, by the angle whose half has cosine 3/5.
\* to_quaternion() gives the quaternion with w >= 0.
PoseReal(frame) ==
    CASE frame % 3 = 0 -> <<25, 0, 0, 0>>
      [] frame % 3 = 1 -> <<15, 20, 0, 0>>
      [] frame % 3 = 2 -> <<7, 0 - 24, 0, 0>>

\* dq_negate: the real part negated.
dq_negate(real) == [i \in 1..4 |-> 0 - real[i]]

\* The scenes export_smf_file is called on: an armature object with
\* animation data is selected.
SceneInit ==
    /\ sc_pc = "models"
    /\ arma_mods \in { <<>>, <<TRUE>>, <<FALSE>> }
    /\ pose_position \in (IF arma_mods = <<TRUE>> THEN {"POSE", "REST"}
                          ELSE {"POSE"})
    /\ anim_export_mode \in {"CUR", "LNK", "TRA", "SCN"}
    /\ mute \in UNION { [1..k -> BOOLEAN] : k \in 0..MaxTracks }
    /\ strips \in [1..Len(mute) -> {<<>>, <<1>>, <<2>>}]
    /\ action \in {None, 1}
    /\ animations \in AnimationDicts(ExportedIds(anim_export_mode, action, strips))
    /\ frame_current \in {0, MaxFrame}
    /\ at_call = SceneState
    /\ export_type \in {"KFR", "SPL"}
    /\ subdivisions \in (IF export_type = "SPL" THEN 0..2 ELSE {0})
    /\ obj_i = 0
    /\ anim_i = 0
    /\ arma_prev_position = None
    /\ action_prev = None
    /\ mute_prev = <<>>
    /\ frame_prev = 0
    /\ kf_times = <<>>
    /\ kf_end = <<>>
    /\ kf_i = 0
    /\ animation_bytes = <<>>
    /\ RigIdle
    /\ SkinIdle
    /\ ContainerIdle
    /\ ImportIdle
    /\ FunctionsIdle

\* "for obj in model_list": the object's armature is put in rest position.
ModelSetRest ==
    /\ sc_pc = "models"
    /\ obj_i < Len(arma_mods)
    /\ IF arma_mods[obj_i + 1]
       THEN /\ arma_prev_position' = pose_position
            /\ pose_position' = "REST"
       ELSE UNCHANGED <<arma_prev_position, pose_position>>
    /\ sc_pc' = "mesh"
    /\ UNCHANGED <<action, mute, frame_current, obj_i, anim_i, action_prev,
                   mute_prev, frame_prev, kf_times, kf_end, kf_i, animation_bytes>>
    /\ UNCHANGED sc_inputs
    /\ UNCHANGED sc_frame

\* The mesh is evaluated, "Reset pose_position setting", the model is written.
ModelMesh ==
    /\ sc_pc = "mesh"
    /\ pose_position' = IF arma_mods[obj_i + 1] THEN arma_prev_position
                        ELSE pose_position
    /\ obj_i' = obj_i + 1
    /\ sc_pc' = "models"
    /\ UNCHANGED <<action, mute, frame_current, anim_i, arma_prev_position,
                   action_prev, mute_prev, frame_prev, kf_times, kf_end, kf_i,
                   animation_bytes>>
    /\ UNCHANGED sc_inputs
    /\ UNCHANGED sc_frame

\* Model count, textures, and the animation count byte
\* pack('B', len(animations)).
ModelsDone ==
    /\ sc_pc = "models"
    /\ obj_i = Len(arma_mods)
    /\ animation_bytes' = [count |-> Len(animations), records |-> <<>>]
    /\ sc_pc' = "animations"
    /\ UNCHANGED <<pose_position, action, mute, frame_current, obj_i, anim_i,
                   arma_prev_position, action_prev, mute_prev, frame_prev,
                   kf_times, kf_end, kf_i>>
    /\ UNCHANGED sc_inputs
    /\ UNCHANGED sc_frame

\* "Remember state", mute every track, "Set animation (i.e. action)".
AnimBegin ==
    /\ sc_pc = "animations"
    /\ anim_i < Len(animations)
    /\ action_prev' = action
    /\ mute_prev' = mute
    /\ mute' = [i \in 1..Len(mute) |-> TRUE]
    /\ action' = animations[anim_i + 1].id
    /\ sc_pc' = "keyframes"
    /\ UNCHANGED <<pose_position, frame_current, obj_i, anim_i,
                   arma_prev_position, frame_prev, kf_times, kf_end, kf_i,
                   animation_bytes>>
    /\ UNCHANGED sc_inputs
    /\ UNCHANGED sc_frame

\* "Determine keyframe times". kf_times[len(kf_times)-1] raises IndexError on
\* an action without keyframe points, i/subdivisions raises ZeroDivisionError
\* when subdivisions is 0.
KeyframeTimes ==
    /\ sc_pc = "keyframes"
    /\ LET anim == animations[anim_i + 1]
           times == IF export_type = "KFR" THEN SortedTimes(anim.keyframes)
                    ELSE SampledTimes(anim.frame_range, subdivisions)
           raises == IF export_type = "KFR" THEN times = <<>>
                     ELSE subdivisions = 0
       IN  IF raises
           THEN /\ sc_pc' = "failed"
                /\ UNCHANGED <<kf_times, kf_end>>
           ELSE /\ kf_times' = times
                /\ kf_end' = IF export_type = "KFR" THEN times[Len(times)]
                             ELSE times[subdivisions + 1]
                /\ sc_pc' = "write"
    /\ UNCHANGED <<pose_position, action, mute, frame_current, obj_i, anim_i,
                   arma_prev_position, action_prev, mute_prev, frame_prev, kf_i,
                   animation_bytes>>
    /\ UNCHANGED sc_inputs
    /\ UNCHANGED sc_frame

\* write_animation_data: the record header with animName and
\* animFrameNumber, frame_prev = scene.frame_current.
WriteBegin ==
    /\ sc_pc = "write"
    /\ frame_prev' = frame_current
    /\ kf_i' = 0
    /\ animation_bytes' =
          [animation_bytes EXCEPT !.records =
              Append(@, [animName |-> animations[anim_i + 1].id,
                         animFrameNumber |-> Len(kf_times), frames |-> <<>>])]
    /\ sc_pc' = "frames"
    /\ UNCHANGED <<pose_position, action, mute, frame_current, obj_i, anim_i,
                   arma_prev_position, action_prev, mute_prev, kf_times, kf_end>>
    /\ UNCHANGED sc_inputs
    /\ UNCHANGED sc_frame

\* "for kf_time in keyframe_times": scene.frame_set, then kf_time/frame_max,
\* which raises ZeroDivisionError when frame_max is 0, then the time and the
\* negated dual quaternion of the node are written.
WriteFrame ==
    /\ sc_pc = "frames"
    /\ kf_i < Len(kf_times)
    /\ frame_current' = IntFrame(kf_times[kf_i + 1])
    /\ IF kf_end.num = 0
       THEN /\ sc_pc' = "failed"
            /\ UNCHANGED <<kf_i, animation_bytes>>
       ELSE /\ kf_i' = kf_i + 1
            /\ animation_bytes' =
                  [animation_bytes EXCEPT !.records[Len(animation_bytes.records)].frames =
                      Append(@, [time |-> NormalizedTime(kf_times[kf_i + 1], kf_end),
                                 real |-> dq_negate(PoseReal(frame_current'))])]
            /\ UNCHANGED sc_pc
    /\ UNCHANGED <<pose_position, action, mute, obj_i, anim_i, arma_prev_position,
                   action_prev, mute_prev, frame_prev, kf_times, kf_end>>
    /\ UNCHANGED sc_inputs
    /\ UNCHANGED sc_frame

\* "Restore frame position".
WriteEnd ==
    /\ sc_pc = "frames"
    /\ kf_i = Len(kf_times)
    /\ frame_current' = frame_prev
    /\ sc_pc' = "restore"
    /\ UNCHANGED <<pose_position, action, mute, obj_i, anim_i, arma_prev_position,
                   action_prev, mute_prev, frame_prev, kf_times, kf_end, kf_i,
                   animation_bytes>>
    /\ UNCHANGED sc_inputs
    /\ UNCHANGED sc_frame

\* A restore that forgets the mute flags of the tracks.
AnimRestore_action_only ==
    /\ sc_pc = "restore"
    /\ action' = action_prev
    /\ anim_i' = anim_i + 1
    /\ sc_pc' = "animations"
    /\ UNCHANGED <<pose_position, frame_current, obj_i, arma_prev_position,
                   action_prev, mute_prev, frame_prev, kf_times, kf_end, kf_i,
                   animation_bytes, mute>>
    /\ UNCHANGED sc_inputs
    /\ UNCHANGED sc_frame

\* "Restore to previous state".
AnimRestore ==
    /\ sc_pc = "restore"
    /\ action' = action_prev
    /\ mute' = mute_prev
    /\ anim_i' = anim_i + 1
    /\ sc_pc' = "animations"
    /\ UNCHANGED <<pose_position, frame_current, obj_i, arma_prev_position,
                   action_prev, mute_prev, frame_prev, kf_times, kf_end, kf_i,
                   animation_bytes>>
    /\ UNCHANGED sc_inputs
    /\ UNCHANGED sc_frame

\* The header is built, the file is written, {'FINISHED'} is returned.
SceneFinish ==
    /\ sc_pc = "animations"
    /\ anim_i = Len(animations)
    /\ sc_pc' = "finished"
    /\ UNCHANGED <<pose_position, action, mute, frame_current, obj_i, anim_i,
                   arma_prev_position, action_prev, mute_prev, frame_prev,
                   kf_times, kf_end, kf_i, animation_bytes>>
    /\ UNCHANGED sc_inputs
    /\ UNCHANGED sc_frame

SceneNext ==
    \/ ModelSetRest \/ ModelMesh \/ ModelsDone \/ AnimBegin \/ KeyframeTimes
    \/ WriteBegin \/ WriteFrame \/ WriteEnd \/ AnimRestore \/ SceneFinish

SpecScene == SceneInit /\ [][SceneNext]_vars

-----------------------------------------------------------------------------
(* import_smf_file *)

\* The first 17 bytes of a file: the magic of a v7 file, of a v11 file, of a
\* v10 file, and of a file that is no SMF file.
Magics ==
    {"SnidrsModelFormat", "SMF_v11_by_Snidr_", "SMF_v10_by_Snidr_",
     "SnidrsModelFormaT"}

\* The float at offset 18, in tenths: 0.0, 6.9, 7.0, 7.5, 8.0, 10.0.
Versions == {0, 69, 70, 75, 80, 100}

\* Names as the file holds them, without the zero byte: "a", the UTF-8
\* bytes of e-acute, and "".
FileNames == {<<97>>, <<195, 169>>, <<>>}

\* The node records of the rig chunk: no node, or a root and its tail.
FileRigs ==
    { <<>>, <<[parent |-> 0, is_bone |-> 0], [parent |-> 0, is_bone |-> 1]>> }

\* The files: length tells how much of the header the file holds ("empty":
\* no byte, "magic": fewer than 22 bytes, "full": the whole file);
\* textures holds the name of each texture, models the texture name of each
\* model, nodes the node records.
Files ==
    [length : {"full"}, magic : Magics, version : Versions,
     textures : UNION { [1..k -> FileNames \ {<<>>}] : k \in 0..MaxTextures },
     models : UNION { [1..k -> FileNames] : k \in 0..MaxModels },
     nodes : FileRigs]
    \cup
    { [length |-> "empty", magic |-> "", version |-> 0,
       textures |-> <<>>, models |-> <<>>, nodes |-> <<>>],
      [length |-> "magic", magic |-> "SnidrsModelFormat", version |-> 70,
       textures |-> <<>>, models |-> <<>>, nodes |-> <<>>] }

\* chr(data[offset])
Chr(byte) == byte

\* unpack_string_from: the characters chr(b) of the bytes b up to the zero.
unpack_string_from(bytes) == [i \in 1..Len(bytes) |-> Chr(bytes[i])]

\* int() of a float given in tenths (the float is not negative).
PyInt(tenths) == tenths \div 10

\* x in list
Contains(list, x) == \E i \in 1..Len(list) : list[i] = x

\* ".001", ".002", ...
Suffix(k) == <<46, 48, 48, 48 + k>>

\* The name Blender gives a new datablock: the name asked for, or that name
\* with the first free numeric suffix when it is taken.
UniqueName(name, existing) ==
    IF ~Contains(existing, name) THEN name
    ELSE name \o Suffix(CHOOSE k \in 1..9 :
                            /\ ~Contains(existing, name \o Suffix(k))
                            /\ \A j \in 1..(k - 1) :
                                   Contains(existing, name \o Suffix(j)))

\* The files import_smf_file is called on, and the materials of the .blend.
ImportInit ==
    /\ im_pc = "header"
    /\ data \in Files
    /\ create_new_materials_images \in BOOLEAN
    /\ reads = <<>>
    /\ versionNum = None
    /\ tex_i = 0
    /\ model_index = 0
    /\ img = <<>>
    /\ material_map = EmptyDict
    /\ images = <<>>
    /\ materials \in { <<>>, << <<97>> >> }
    /\ meshes = 0
    /\ objects = <<>>
    /\ edit_bones = 0
    /\ RigIdle
    /\ SkinIdle
    /\ ContainerIdle
    /\ SceneIdle
    /\ FunctionsIdle

\* An accepting test that lets every version from 7 on through.
VersionBelowSeven(version) == version < 7

\* "if versionNum != 7"
VersionRejected(version) == version # 7

\* unpack_from("17s", data) and "SMF file?". unpack_from raises struct.error
\* on a file shorter than 17 bytes.
ReadHeader ==
    /\ im_pc = "header"
    /\ IF data.length = "empty"
       THEN /\ im_pc' = "failed"
            /\ UNCHANGED reads
       ELSE /\ reads' = Append(reads, "magic")
            /\ im_pc' = IF data.magic # "SnidrsModelFormat" THEN "finished"
                        ELSE "version"
    /\ UNCHANGED <<data, create_new_materials_images, versionNum, tex_i,
                   model_index, img, material_map, images, materials, meshes,
                   objects, edit_bones>>
    /\ UNCHANGED im_frame

\* "Valid SMF v7 file?". unpack_from raises on a file shorter than 22 bytes.
ReadVersion ==
    /\ im_pc = "version"
    /\ IF data.length = "magic"
       THEN /\ im_pc' = "failed"
            /\ UNCHANGED <<reads, versionNum>>
       ELSE /\ reads' = Append(reads, "version")
            /\ versionNum' = PyInt(data.version)
            /\ im_pc' = IF VersionRejected(PyInt(data.version)) THEN "finished"
                        ELSE "offsets"
    /\ UNCHANGED <<data, create_new_materials_images, tex_i, model_index, img,
                   material_map, images, materials, meshes, objects, edit_bones>>
    /\ UNCHANGED im_frame

\* The offset table, modelNum, and the number of textures at texPos.
ReadOffsets ==
    /\ im_pc = "offsets"
    /\ reads' = reads \o <<"offsets", "modelNum", "tex">>
    /\ im_pc' = "textures"
    /\ UNCHANGED <<data, create_new_materials_images, versionNum, tex_i,
                   model_index, img, material_map, images, materials, meshes,
                   objects, edit_bones>>
    /\ UNCHANGED im_frame

\* One round of "for i in range(n)". img keeps its value when the material
\* exists already; img.name raises AttributeError while img is None.
ReadTexture ==
    /\ im_pc = "textures"
    /\ tex_i < Len(data.textures)
    /\ LET name == unpack_string_from(data.textures[tex_i + 1])
           create == create_new_materials_images \/ ~Contains(materials, name)
           img_name == UniqueName(name, images)
           mat == IF create THEN UniqueName(name, materials) ELSE name
           img_now == IF create THEN <<img_name>> ELSE img
       IN  /\ img' = img_now
           /\ images' = IF create THEN Append(images, img_name) ELSE images
           /\ materials' = IF create THEN Append(materials, mat) ELSE materials
           /\ IF img_now = <<>>
              THEN /\ im_pc' = "failed"
                   /\ UNCHANGED <<material_map, tex_i>>
              ELSE /\ material_map' = DictSet(material_map, img_now[1], mat)
                   /\ tex_i' = tex_i + 1
                   /\ UNCHANGED im_pc
    /\ reads' = Append(reads, "tex")
    /\ UNCHANGED <<data, create_new_materials_images, versionNum, model_index,
                   meshes, objects, edit_bones>>
    /\ UNCHANGED im_frame

\* "Read model data..."
TexturesDone ==
    /\ im_pc = "textures"
    /\ tex_i = Len(data.textures)
    /\ im_pc' = "models"
    /\ UNCHANGED <<data, create_new_materials_images, reads, versionNum, tex_i,
                   model_index, img, material_map, images, materials, meshes,
                   objects, edit_bones>>
    /\ UNCHANGED im_frame

\* One round of "for model_index in range(modelNum)": a mesh, an object, and
\* the material bpy.data.materials[texName], which raises KeyError when no
\* material has that name and create_new_materials_images is off.
ReadModel ==
    /\ im_pc = "models"
    /\ model_index < Len(data.models)
    /\ LET texName == unpack_string_from(data.models[model_index + 1])
           found == Contains(materials, texName)
       IN  /\ meshes' = meshes + 1
           /\ IF ~create_new_materials_images /\ ~found
              THEN /\ objects' = Append(objects, [type |-> "MESH", material |-> <<>>])
                   /\ im_pc' = "failed"
                   /\ UNCHANGED model_index
              ELSE /\ objects' = Append(objects,
                          [type |-> "MESH",
                           material |-> IF found THEN <<texName>> ELSE <<>>])
                   /\ model_index' = model_index + 1
                   /\ UNCHANGED im_pc
    /\ reads' = Append(reads, "mod")
    /\ UNCHANGED <<data, create_new_materials_images, versionNum, tex_i, img,
                   material_map, images, materials, edit_bones>>
    /\ UNCHANGED im_frame

\* "Read rig info and construct armature", the bones that are not connected
\* are deleted, mode_set, return {'FINISHED'}.
ReadRig ==
    /\ im_pc = "models"
    /\ model_index = Len(data.models)
    /\ reads' = Append(reads, "rig")
    /\ IF Len(data.nodes) > 0
       THEN /\ objects' = Append(objects, [type |-> "ARMATURE", material |-> <<>>])
            /\ edit_bones' = Cardinality({i \in 1..Len(data.nodes) :
                                             data.nodes[i].is_bone # 0})
       ELSE UNCHANGED <<objects, edit_bones>>
    /\ im_pc' = "finished"
    /\ UNCHANGED <<data, create_new_materials_images, versionNum, tex_i,
                   model_index, img, material_map, images, materials, meshes>>
    /\ UNCHANGED im_frame

ImportNext ==
    \/ ReadHeader \/ ReadVersion \/ ReadOffsets \/ ReadTexture \/ TexturesDone
    \/ ReadModel \/ ReadRig

SpecImport == ImportInit /\ [][ImportNext]_vars

-----------------------------------------------------------------------------
(* Export, then import of the written file *)

RECURSIVE Utf8Bytes(_)
\* bytearray(name, 'utf-8'): the UTF-8 bytes of a string of code points.
Utf8Bytes(name) ==
    IF name = <<>> THEN <<>>
    ELSE LET c == Head(name)
             bytes ==
                IF c < 128 THEN <<c>>
                ELSE IF c < 2048 THEN <<192 + (c \div 64), 128 + (c % 64)>>
                ELSE IF c < 65536
                     THEN <<224 + (c \div 4096), 128 + ((c \div 64) % 64),
                            128 + (c % 64)>>
                     ELSE <<240 + (c \div 262144), 128 + ((c \div 4096) % 64),
                            128 + ((c \div 64) % 64), 128 + (c % 64)>>
         IN  bytes \o Utf8Bytes(Tail(name))

\* unpack_from("17s", data) on the header of encoder e: the first 17
\* characters of its magic string.
Magic17(e) ==
    CASE e = "v7"  -> "SnidrsModelFormat"
      [] e = "v11" -> "SMF_v11_by_Snidr_"
      [] e = "v10" -> "SMF_v10_by_Snidr_"

\* The byte position at which write k of file f begins.
WritePos(f, k) == ByteLen(Flatten([j \in 1..(k - 1) |-> f[j].bytes]))

\* The bytes from position pos on up to the end of the write they are in.
BytesAt(f, pos) ==
    LET k == CHOOSE j \in 1..Len(f) : WritePos(f, j) = pos /\ f[j].bytes # <<>>
    IN  f[k].bytes

\* The offsets unpack_from("I"*10, data, offset=18+4) finds in a v7 header.
HeaderOffsets(f) ==
    LET fields == SelectSeq(f[1].bytes, LAMBDA x : x.kind = "offset")
    IN  [i \in 1..Len(fields) |-> fields[i].val]

\* The values of the fields of the given kind.
FieldValues(buffer, kind) ==
    LET fields == SelectSeq(buffer, LAMBDA x : x.kind = kind)
    IN  [i \in 1..Len(fields) |-> fields[i].val]

\* What import_smf_file finds in a file f of encoder e. Only a v7 header has
\* a version float at offset 18 and the chunk offsets at offset 22; the
\* importer reads the texture chunk at texPos, the models at modPos and the
\* rig at rigPos.
FileData(f, e) ==
    IF e # "v7"
    THEN [length |-> "full", magic |-> Magic17(e), version |-> 0,
          textures |-> <<>>, models |-> <<>>, nodes |-> <<>>]
    ELSE LET offs == HeaderOffsets(f)
             tex == BytesAt(f, offs[1])
             modelNum == FieldValues(f[1].bytes, "no_models")[1]
             mod == IF modelNum = 0 THEN <<>> ELSE BytesAt(f, offs[3])
             rig == BytesAt(f, offs[6])
             tex_names == FieldValues(tex, "name")
             mod_names == FieldValues(mod, "tex_name")
             parents == FieldValues(rig, "parent")
             connected == FieldValues(rig, "connected")
         IN  [length |-> "full", magic |-> Magic17(e),
              version |-> 10 * FieldValues(f[1].bytes, "version")[1],
              textures |-> [i \in 1..Len(tex_names) |-> Utf8Bytes(tex_names[i])],
              models |-> [i \in 1..modelNum |-> Utf8Bytes(mod_names[i])],
              nodes |-> [i \in 1..Len(parents) |->
                            [parent |-> parents[i], is_bone |-> connected[i]]]]

\* import_smf_file is called on the file an encoder has written. The v7
\* encoder closes a model with pack('L', 0) twice and the importer skips
\* 2*4 bytes: where 'L' has 8 bytes the models after the first are not where
\* the importer looks, and those files are left out here.
ImportFile ==
    /\ ct_pc = "written"
    /\ im_pc = "idle"
    /\ enc = "v7" => (long_size = 4 \/ Len(model_list) <= 1)
    /\ data' = FileData(file, enc)
    /\ create_new_materials_images' \in BOOLEAN
    /\ materials' \in { <<>>, << <<97>> >> }
    /\ im_pc' = "header"
    /\ UNCHANGED <<reads, versionNum, tex_i, model_index, img, material_map,
                   images, meshes, objects, edit_bones>>
    /\ UNCHANGED im_frame

RoundTripNext == ContainerNext \/ ImportFile \/ ImportNext

SpecRoundTrip == ContainerInit /\ [][RoundTripNext]_vars

-----------------------------------------------------------------------------
(* dq_normalize *)

\* Quaternion.dot
Dot(p, q) == p[1] * q[1] + p[2] * q[2] + p[3] * q[3] + p[4] * q[4]

\* Quaternion.magnitude, for the quaternions whose magnitude is an integer.
Magnitude(q) == CHOOSE m \in 0..Dot(q, q) : m * m = Dot(q, q)

\* The real parts given to dq_normalize: the zero quaternion, unit
\* quaternions and quaternions of magnitude 2 and 5.
DqReals ==
    { <<0, 0, 0, 0>>, <<1, 0, 0, 0>>, <<0, 0, 0 - 1, 0>>, <<0, 2, 0, 0>>,
      <<3, 4, 0, 0>>, <<0, 0, 0, 2>> }

\* The dual parts given to dq_normalize.
DqDuals == [1..4 -> (0 - MaxDual)..MaxDual]

\* dq_normalize is called with a dual quaternion.
DqInit ==
    /\ dq_pc = "call"
    /\ dq \in [real : DqReals, dual : DqDuals]
    /\ dq_result = <<>>
    /\ RigIdle
    /\ SkinIdle
    /\ ContainerIdle
    /\ SceneIdle
    /\ ImportIdle
    /\ MatrixIdle
    /\ TextureIdle
    /\ StringIdle
    /\ ProductIdle
    /\ ModelChunkIdle
    /\ NodeLoopIdle
    /\ VertexLoopIdle

\* dq_normalize(dq): l = 1 / dq.real.magnitude raises ZeroDivisionError when
\* the magnitude is 0, before anything is changed. Otherwise the real part is
\* divided by its magnitude m and the dual part becomes
\* (dual - real/m * d) * l with d = (real/m) . dual, that is
\* (dual * m^2 - real * (real . dual)) / m^3.
dq_normalize ==
    /\ dq_pc = "call"
    /\ LET m == Magnitude(dq.real) IN
       IF m = 0
       THEN /\ dq_pc' = "raised"
            /\ UNCHANGED dq_result
       ELSE /\ dq_pc' = "returned"
            /\ dq_result' =
                  [real |-> [num |-> dq.real, den |-> m],
                   dual |-> [num |-> [j \in 1..4 |->
                                        dq.dual[j] * m * m
                                        - dq.real[j] * Dot(dq.real, dq.dual)],
                             den |-> m * m * m]]
    /\ UNCHANGED dq
    /\ UNCHANGED dq_frame

DqNext == dq_normalize

SpecDq == DqInit /\ [][DqNext]_vars

-----------------------------------------------------------------------------
(* apply_world_matrix *)

\* Rotations by quarter turns: about Z, about X, and a half turn about Y.
Rotations ==
    { << <<1, 0, 0>>, <<0, 1, 0>>, <<0, 0, 1>> >>,
      << <<0, 0 - 1, 0>>, <<1, 0, 0>>, <<0, 0, 1>> >>,
      << <<1, 0, 0>>, <<0, 0, 0 - 1>>, <<0, 1, 0>> >>,
      << <<0 - 1, 0, 0>>, <<0, 1, 0>>, <<0, 0, 0 - 1>> >> }

\* Matrix.LocRotScale with a uniform scale: the 4x4 matrix of a rotation, a
\* scale and a location.
Matrix4(rot, scale, loc) ==
    [i \in 1..4 |-> [j \in 1..4 |->
        IF i = 4 THEN (IF j = 4 THEN 1 ELSE 0)
        ELSE IF j = 4 THEN loc[i] ELSE scale * rot[i][j]]]

\* mat_w @= matrix
MatMul(a, b) ==
    [i \in 1..4 |-> [j \in 1..4 |->
        a[i][1] * b[1][j] + a[i][2] * b[2][j] + a[i][3] * b[3][j] + a[i][4] * b[4][j]]]

Abs(x) == IF x < 0 THEN 0 - x ELSE x

\* Matrix.decompose() of a matrix whose upper 3x3 part is a rotation by
\* quarter turns times a positive scale: the location is the fourth column,
\* the scale of an axis is the length of its column, the rotation is what is
\* left of the 3x3 part when every column is divided by its length.
Decompose(m) ==
    LET scale == [j \in 1..3 |-> Abs(m[1][j]) + Abs(m[2][j]) + Abs(m[3][j])]
    IN  [loc |-> <<m[1][4], m[2][4], m[3][4]>>,
         rot |-> [i \in 1..3 |-> [j \in 1..3 |-> m[i][j] \div scale[j]]],
         scale |-> scale]

\* "Swap columns for use with SMF": columns 0 and 1 of the 3x3 matrix.
SwapColumns(rot) ==
    [i \in 1..3 |-> <<rot[i][2], rot[i][1], rot[i][3]>>]

\* A mirror that leaves the translation alone.
MirrorY_rotation_only(m) ==
    [i \in 1..4 |-> [j \in 1..4 |->
        IF i = 2 /\ j <= 3 THEN 0 - m[i][j] ELSE m[i][j]]]

\* mat_w.row[1] *= -1
MirrorY(m) ==
    [i \in 1..4 |-> [j \in 1..4 |->
        IF i = 2 THEN 0 - m[i][j] ELSE m[i][j]]]

\* The bone matrices (a rotation, the tail of the bone as translation) and
\* the world matrices (rotation, uniform scale, location) of the calls.
MatrixInit ==
    /\ mx_pc = "call"
    /\ matrix \in { Matrix4(r, 1, t) :
                      r \in Rotations,
                      t \in [1..3 -> (0 - MaxCoord)..MaxCoord] }
    /\ matrix_world \in { Matrix4(r, s, t) :
                            r \in Rotations, s \in 1..MaxScale,
                            t \in { <<0, 0, 0>>, <<MaxCoord + 1, 0 - 1, 0>> } }
    /\ mat_w = <<>>
    /\ RigIdle
    /\ SkinIdle
    /\ ContainerIdle
    /\ SceneIdle
    /\ ImportIdle
    /\ DqIdle
    /\ TextureIdle
    /\ StringIdle
    /\ ProductIdle
    /\ ModelChunkIdle
    /\ NodeLoopIdle
    /\ VertexLoopIdle

\* apply_world_matrix(matrix, matrix_world)
apply_world_matrix ==
    /\ mx_pc = "call"
    /\ LET deco == Decompose(MatMul(matrix_world, matrix))
           mat_rot == SwapColumns(deco.rot)
       IN  mat_w' = MirrorY(Matrix4(mat_rot, 1, deco.loc))
    /\ mx_pc' = "returned"
    /\ UNCHANGED <<matrix, matrix_world>>
    /\ UNCHANGED mx_frame

MatrixNext == apply_world_matrix

SpecMatrix == MatrixInit /\ [][MatrixNext]_vars

-----------------------------------------------------------------------------
(* texture_image_from_node_tree and the texture name of a sub-block *)

\* node.image of a node: None, an image without pixel data (has_data False),
\* an image with pixel data.
NodeImages == {"None", "no_data", "loaded"}

\* The shader nodes: the node linked to the Surface input of the output node
\* and the node linked to input 0 of that node.
ShaderNodes == [type : {"TEX_IMAGE", "BSDF_PRINCIPLED"}, image : NodeImages]

\* The materials of a slot.
Materials ==
    [use_nodes : BOOLEAN, has_output : BOOLEAN, surface_linked : BOOLEAN,
     first : ShaderNodes, input0_linked : BOOLEAN, second : ShaderNodes]

\* The value texture_image_from_node_tree(material) returns. Where the image
\* found has no pixel data the else branch holds a string literal only, and
\* the function ends without a return statement: it returns None.
ImageReturned(m) ==
    IF ~m.use_nodes THEN "None"
    ELSE IF ~m.has_output THEN "None"
    ELSE IF ~m.surface_linked THEN "None"
    ELSE IF m.first.type = "TEX_IMAGE" /\ m.first.image # "None"
         THEN (IF m.first.image = "loaded" THEN "loaded" ELSE "None")
    ELSE IF ~m.input0_linked THEN "None"
    ELSE IF m.second.type = "TEX_IMAGE" /\ m.second.image # "None"
         THEN (IF m.second.image = "loaded" THEN "loaded" ELSE "None")
    ELSE "None"

\* A sub-block of a mesh is written and its slot has a material.
TextureInit ==
    /\ tx_pc = "call"
    /\ material \in Materials
    /\ image = "None"
    /\ reports = <<>>
    /\ sub_img_name = <<>>
    /\ unique_images = {}
    /\ RigIdle
    /\ SkinIdle
    /\ ContainerIdle
    /\ SceneIdle
    /\ ImportIdle
    /\ DqIdle
    /\ MatrixIdle
    /\ StringIdle
    /\ ProductIdle
    /\ ModelChunkIdle
    /\ NodeLoopIdle
    /\ VertexLoopIdle

\* img = texture_image_from_node_tree(mat): nothing is reported.
texture_image_from_node_tree ==
    /\ tx_pc = "call"
    /\ image' = ImageReturned(material)
    /\ tx_pc' = "img"
    /\ UNCHANGED <<material, reports, sub_img_name, unique_images>>
    /\ UNCHANGED tx_frame

\* "if img: unique_images.add(img)", img_name = img.name if img else "",
\* the name is written to the sub-block.
WriteTextureName ==
    /\ tx_pc = "img"
    /\ unique_images' = IF image # "None" THEN unique_images \cup {ImgName}
                        ELSE unique_images
    /\ sub_img_name' = IF image # "None" THEN ImgName ELSE EmptyName
    /\ tx_pc' = "written"
    /\ UNCHANGED <<material, image, reports>>
    /\ UNCHANGED tx_frame

TextureNext == texture_image_from_node_tree \/ WriteTextureName

SpecTexture == TextureInit /\ [][TextureNext]_vars

-----------------------------------------------------------------------------
(* unpack_string_from, step by step *)

\* The characters of the names: "a", "e" with acute accent (U+00E9), the
\* euro sign (U+20AC). None is the zero character.
NameChars == {97, 233, 8364}

\* The names: every string of at most MaxNameLen of these characters.
Names == UNION { [1..k -> NameChars] : k \in 0..MaxNameLen }

\* The bytes of the file before the name: nothing, a count byte, the two
\* bytes of a uint16 0.
Prefixes == { <<>>, <<1>>, <<0, 0>> }

\* bytearray(name + '\0', 'utf-8'), as the encoder writes a name.
EncodedName(nm) == Utf8Bytes(nm) \o <<0>>

\* The importer is about to read a name the encoder wrote; a byte of the
\* next field follows the terminator.
StringInit ==
    /\ str_pc = "loop"
    /\ str_name \in Names
    /\ \E prefix \in Prefixes :
          /\ str_data = prefix \o EncodedName(str_name) \o <<7>>
          /\ str_start = Len(prefix)
    /\ str_offset = str_start
    /\ str_result = <<>>
    /\ str_next = 0
    /\ RigIdle
    /\ SkinIdle
    /\ ContainerIdle
    /\ SceneIdle
    /\ ImportIdle
    /\ DqIdle
    /\ MatrixIdle
    /\ TextureIdle
    /\ ProductIdle
    /\ ModelChunkIdle
    /\ NodeLoopIdle
    /\ VertexLoopIdle

\* "while data[offset] != 0: result += chr(data[offset]); offset += 1"
UnpackStep ==
    /\ str_pc = "loop"
    /\ str_data[str_offset + 1] # 0
    /\ str_result' = Append(str_result, Chr(str_data[str_offset + 1]))
    /\ str_offset' = str_offset + 1
    /\ UNCHANGED <<str_pc, str_name, str_data, str_start, str_next>>
    /\ UNCHANGED str_frame

\* data[offset] is 0: "return result"
UnpackReturn ==
    /\ str_pc = "loop"
    /\ str_data[str_offset + 1] = 0
    /\ str_pc' = "returned"
    /\ UNCHANGED <<str_name, str_data, str_start, str_offset, str_result, str_next>>
    /\ UNCHANGED str_frame

\* The caller: "offset = offset + len(name) + 1"
AdvanceOffset ==
    /\ str_pc = "returned"
    /\ str_next' = str_start + Len(str_result) + 1
    /\ str_pc' = "advanced"
    /\ UNCHANGED <<str_name, str_data, str_start, str_offset, str_result>>
    /\ UNCHANGED str_frame

StringNext == UnpackStep \/ UnpackReturn \/ AdvanceOffset

SpecString == StringInit /\ [][StringNext]_vars

-----------------------------------------------------------------------------
(* dq_get_product and dq_get_conjugate *)

\* Quaternion @ Quaternion: the Hamilton product, components (w, x, y, z).
QMul(p, q) ==
    << p[1] * q[1] - p[2] * q[2] - p[3] * q[3] - p[4] * q[4],
       p[1] * q[2] + p[2] * q[1] + p[3] * q[4] - p[4] * q[3],
       p[1] * q[3] - p[2] * q[4] + p[3] * q[1] + p[4] * q[2],
       p[1] * q[4] + p[2] * q[3] - p[3] * q[2] + p[4] * q[1] >>

\* Quaternion + Quaternion
QAdd(p, q) == [i \in 1..4 |-> p[i] + q[i]]

\* Quaternion.conjugated()
Conjugated(q) == <<q[1], 0 - q[2], 0 - q[3], 0 - q[4]>>

\* dq_get_conjugate(dq)
dq_get_conjugate(d) ==
    [real |-> Conjugated(d.real), dual |-> Conjugated(d.dual), den |-> d.den]

\* A product with the operands of every quaternion product exchanged.
dq_get_product_reversed(a, b) ==
    [real |-> QMul(b.real, a.real),
     dual |-> QAdd(QMul(b.dual, a.real), QMul(b.real, a.dual)),
     den |-> a.den * b.den]

\* dq_get_product(dq1, dq2):
\* DQ(dq1.real @ dq2.real, dq1.real @ dq2.dual + dq1.dual @ dq2.real)
dq_get_product(a, b) ==
    [real |-> QMul(a.real, b.real),
     dual |-> QAdd(QMul(a.real, b.dual), QMul(a.dual, b.real)),
     den |-> a.den * b.den]

\* Unit quaternions, as numerators over 25: the identity, quarter and half
\* turns, and turns by angles whose half has cosine 3/5 or 7/25.
UnitReals ==
    { <<25, 0, 0, 0>>, <<15, 20, 0, 0>>, <<7, 0 - 24, 0, 0>>, <<0, 15, 0, 20>>,
      <<0, 0, 25, 0>>, <<0 - 15, 0, 20, 0>> }

\* Dual parts, as numerators over 25: zero (a pure rotation) and two others.
DualParts == { <<0, 0, 0, 0>>, <<0, 10, 0, 0>>, <<5, 0, 0 - 10, 15>> }

\* The dual quaternions given to the two functions.
DqOperands == [real : UnitReals, dual : DualParts, den : {25}]

\* dq_get_product(dq, dq_get_conjugate(dq)) for a dual quaternion dq, or
\* dq_get_product(dq1, dq2) for two dual quaternions.
ProductInit ==
    /\ pr_pc \in {"conjugate", "product"}
    /\ dq1 \in DqOperands
    /\ dq2 \in (IF pr_pc = "product" THEN DqOperands ELSE {<<>>})
    /\ dq_product = <<>>
    /\ RigIdle
    /\ SkinIdle
    /\ ContainerIdle
    /\ SceneIdle
    /\ ImportIdle
    /\ DqIdle
    /\ MatrixIdle
    /\ TextureIdle
    /\ StringIdle
    /\ ModelChunkIdle
    /\ NodeLoopIdle
    /\ VertexLoopIdle

\* The second operand is dq_get_conjugate(dq1).
ConjugateCall ==
    /\ pr_pc = "conjugate"
    /\ dq2' = dq_get_conjugate(dq1)
    /\ pr_pc' = "product"
    /\ UNCHANGED <<dq1, dq_product>>
    /\ UNCHANGED pr_frame

\* dq_get_product(dq1, dq2) is called and returns.
ProductCall ==
    /\ pr_pc = "product"
    /\ dq2 # <<>>
    /\ dq_product' = dq_get_product(dq1, dq2)
    /\ pr_pc' = "returned"
    /\ UNCHANGED <<dq1, dq2>>
    /\ UNCHANGED pr_frame

ProductNext == ConjugateCall \/ ProductCall

SpecProduct == ProductInit /\ [][ProductNext]_vars

-----------------------------------------------------------------------------
(* The model chunk of export_smf_file, object by object *)

\* ba_count = len(obj.material_slots) if obj.material_slots else 1
ba_count(obj) == IF obj.slots > 0 THEN obj.slots ELSE 1

\* The mesh objects: slots material slots, and for every triangle of
\* mesh.loop_triangles its face.material_index, a slot of the object. The
\* triangles of a slot follow those of the slots before it.
MeshObjects ==
    UNION { { [slots |-> k, faces |-> f] :
                f \in UNION { { g \in [1..t -> 0..(ba_count([slots |-> k]) - 1)] :
                                  \A i \in 1..(t - 1) : g[i] <= g[i + 1] } :
                              t \in 0..MaxTris } } :
            k \in 0..MaxSlots }

\* len(data[index]) after the loop over mesh.loop_triangles: every triangle
\* adds three vertices of SMF_format_size bytes to the bytearray of its slot.
SlotBytes(obj, index) ==
    SMF_format_size * 3 * Cardinality({ i \in 1..Len(obj.faces) : obj.faces[i] = index })

RECURSIVE IndicesFrom(_, _, _)
\* An encoder that writes a sub-block for every material slot.
AllSlots(obj, index, count) ==
    IF index = count THEN <<>>
    ELSE <<index>> \o IndicesFrom(obj, index + 1, count)

\* [index for (index, ba) in enumerate(data) if ba], from index on.
IndicesFrom(obj, index, count) ==
    IF index = count THEN <<>>
    ELSE (IF SlotBytes(obj, index) > 0 THEN <<index>> ELSE <<>>)
         \o IndicesFrom(obj, index + 1, count)

\* The model sub-blocks of object number o: the length prefix, the vertex
\* data (here: whose they are), the two names and the visible flag.
ObjectSubBlocks(o, obj) ==
    LET used == IndicesFrom(obj, 0, ba_count(obj)) IN
    Flatten([k \in 1..Len(used) |->
        <<Field("length", SlotBytes(obj, used[k]), SizeI),
          Field("vertices", <<o, used[k]>>, SlotBytes(obj, used[k])),
          StringField("mat_name", IF obj.slots > 0 THEN MatName ELSE EmptyName),
          StringField("img_name", EmptyName),
          Field("visible", 1, SizeB)>>])

\* model_bytes.extend(pack('B', model_number)): the byte reserved for the
\* model count.
ModelChunkInit ==
    /\ mc_pc = "objects"
    /\ mesh_objects \in UNION { [1..k -> MeshObjects] : k \in 0..MaxModels }
    /\ mc_obj = 0
    /\ model_number = 0
    /\ model_bytes = <<Field("count", 0, SizeB)>>
    /\ RigIdle
    /\ SkinIdle
    /\ ContainerIdle
    /\ SceneIdle
    /\ ImportIdle
    /\ DqIdle
    /\ MatrixIdle
    /\ TextureIdle
    /\ StringIdle
    /\ ProductIdle
    /\ NodeLoopIdle
    /\ VertexLoopIdle

\* One pass of "for obj in model_list": the triangles are sorted into the
\* bytearrays of their slots and every bytearray that is not empty is
\* written as a model.
WriteObjectModels ==
    /\ mc_pc = "objects"
    /\ mc_obj < Len(mesh_objects)
    /\ LET obj == mesh_objects[mc_obj + 1]
           used == IndicesFrom(obj, 0, ba_count(obj))
       IN  /\ model_number' = model_number + Len(used)
           /\ model_bytes' = model_bytes \o ObjectSubBlocks(mc_obj + 1, obj)
    /\ mc_obj' = mc_obj + 1
    /\ UNCHANGED <<mc_pc, mesh_objects>>
    /\ UNCHANGED mc_frame

\* "Now write the correct model count": model_bytes[0] = model_number
WriteModelCount ==
    /\ mc_pc = "objects"
    /\ mc_obj = Len(mesh_objects)
    /\ model_bytes' = [model_bytes EXCEPT ![1] = Field("count", model_number, SizeB)]
    /\ mc_pc' = "done"
    /\ UNCHANGED <<mesh_objects, mc_obj, model_number>>
    /\ UNCHANGED mc_frame

ModelChunkNext == WriteObjectModels \/ WriteModelCount

SpecModelChunk == ModelChunkInit /\ [][ModelChunkNext]_vars

-----------------------------------------------------------------------------
(* The node loop of write_animation_data *)

\* The head of bone i of the armature arm: a bone without parent at 0, a
\* connected bone at the tail of its parent, a bone that is not connected at
\* the tail of its parent or, when away, off every tail.
HeadPosition(arm, tails, i, away) ==
    IF ~HasParent(arm, i) THEN 0
    ELSE IF arm[i].use_connect \/ ~away THEN tails[arm[i].parent]
    ELSE 10 + i

\* The posed armatures: the tail of bone i is at i.
PosedArmatures ==
    UNION { { [i \in 1..Len(arm) |->
                 [name |-> arm[i].name, parent |-> arm[i].parent,
                  use_connect |-> arm[i].use_connect,
                  head |-> HeadPosition(arm, [j \in 1..Len(arm) |-> j], i, away[i]),
                  tail |-> i]] :
              away \in [1..Len(arm) -> BOOLEAN] } :
            arm \in UNION { Armatures(N) : N \in 0..MaxNodeBones } }

\* write_animation_data has set the frame and starts "for rbone in bones".
NodeLoopInit ==
    /\ nl_pc = "nodes"
    /\ pose_bones \in PosedArmatures
    /\ node_list = smf_node_list(pose_bones)
    /\ node_i = 0
    /\ pose_bone = None
    /\ node_mats = <<>>
    /\ RigIdle
    /\ SkinIdle
    /\ ContainerIdle
    /\ SceneIdle
    /\ ImportIdle
    /\ DqIdle
    /\ MatrixIdle
    /\ TextureIdle
    /\ StringIdle
    /\ ProductIdle
    /\ ModelChunkIdle
    /\ VertexLoopIdle

\* One pass of "for rbone in bones". A bone: bone = pose.bones[rbone.name],
\* mat = bone.matrix.copy(). An added node: mat = Matrix(), and bone keeps the
\* value of the pass before. Then mat.translation = bone.tail[:]; bone is
\* unbound (NameError) when no pass has assigned it.
WriteNode ==
    /\ nl_pc = "nodes"
    /\ node_i < Len(node_list)
    /\ LET rbone == node_list[node_i + 1]
           bone == IF Truthy(rbone) THEN rbone ELSE pose_bone
       IN  /\ pose_bone' = bone
           /\ IF bone = None
              THEN /\ nl_pc' = "failed"
                   /\ UNCHANGED <<node_i, node_mats>>
              ELSE /\ node_mats' =
                         Append(node_mats,
                                [rot |-> IF Truthy(rbone) THEN <<"pose", rbone>>
                                         ELSE <<"identity", 0>>,
                                 translation |-> pose_bones[bone].tail])
                   /\ node_i' = node_i + 1
                   /\ UNCHANGED nl_pc
    /\ UNCHANGED <<pose_bones, node_list>>
    /\ UNCHANGED nl_frame

\* The loop over the nodes ends.
NodesDone ==
    /\ nl_pc = "nodes"
    /\ node_i = Len(node_list)
    /\ nl_pc' = "done"
    /\ UNCHANGED <<pose_bones, node_list, node_i, pose_bone, node_mats>>
    /\ UNCHANGED nl_frame

NodeLoopNext == WriteNode \/ NodesDone

SpecNodeLoop == NodeLoopInit /\ [][NodeLoopNext]_vars

-----------------------------------------------------------------------------
(* The vertex loop of export_smf_file *)

\* mesh.loop_triangles of a triangle, of a quad (its two triangles share the
\* loops 1 and 3) and of two triangles.
LoopTriangles ==
    { << <<1, 2, 3>> >>,
      << <<1, 2, 3>>, <<1, 3, 4>> >>,
      << <<1, 2, 3>>, <<4, 5, 6>> >> }

\* The number of loops of the mesh with the triangles tris.
LoopCount(tris) == IF Len(tris) = 1 THEN 3 ELSE IF tris[2][1] = 1 THEN 4 ELSE 6

\* The mesh is prepared and "for face in mesh.loop_triangles" starts.
VertexLoopInit ==
    /\ uv_pc = "faces"
    /\ invert_uv_v \in BOOLEAN
    /\ loop_triangles \in LoopTriangles
    /\ uv_data \in {<<>>} \cup [1..LoopCount(loop_triangles) -> {0, 1, MaxUv}]
    /\ uv_orig = uv_data
    /\ face_i = 0
    /\ corner_i = 0
    /\ vertex_records = <<>>
    /\ RigIdle
    /\ SkinIdle
    /\ ContainerIdle
    /\ SceneIdle
    /\ ImportIdle
    /\ DqIdle
    /\ MatrixIdle
    /\ TextureIdle
    /\ StringIdle
    /\ ProductIdle
    /\ ModelChunkIdle
    /\ NodeLoopIdle

\* One pass of "for loop in [mesh.loops[i] for i in face.loops]". uv is the
\* vector of the UV layer itself, or a new list [0, 0] without a UV layer;
\* uv[1] = 1 - uv[1] assigns to it in place; the record takes uv.
WriteVertex ==
    /\ uv_pc = "faces"
    /\ face_i < Len(loop_triangles)
    /\ LET loop == loop_triangles[face_i + 1][corner_i + 1]
           uv == IF uv_data # <<>> THEN uv_data[loop] ELSE 0
           uv1 == IF invert_uv_v THEN MaxUv - uv ELSE uv
       IN  /\ uv_data' = IF uv_data # <<>> THEN [uv_data EXCEPT ![loop] = uv1]
                         ELSE uv_data
           /\ vertex_records' = Append(vertex_records, [loop |-> loop, v |-> uv1])
    /\ IF corner_i = 2
       THEN face_i' = face_i + 1 /\ corner_i' = 0
       ELSE corner_i' = corner_i + 1 /\ UNCHANGED face_i
    /\ UNCHANGED <<uv_pc, invert_uv_v, loop_triangles, uv_orig>>
    /\ UNCHANGED uv_frame

\* The loop over the triangles ends.
FacesDone ==
    /\ uv_pc = "faces"
    /\ face_i = Len(loop_triangles)
    /\ uv_pc' = "done"
    /\ UNCHANGED <<invert_uv_v, loop_triangles, uv_data, uv_orig, face_i,
                   corner_i, vertex_records>>
    /\ UNCHANGED uv_frame

VertexLoopNext == WriteVertex \/ FacesDone

SpecVertexLoop == VertexLoopInit /\ [][VertexLoopNext]_vars

-----------------------------------------------------------------------------
(* Properties of the rig chunk *)

\* The node list and the bindmap have been built.
RigBuilt == has_rig /\ rig_pc \in {"rig_loop", "rig_done"}

\* The bones that have a parent.
ParentedBones == {b \in 1..Len(armature) : HasParent(armature, b)}

\* The bones that have a parent and are not connected to it.
DetachedBones == {b \in ParentedBones : ~armature[b].use_connect}

\* 0-based position of bone b's own entry in the node list.
NodePos(b) == CHOOSE i \in 0..(Len(bones) - 1) : bones[i + 1] = b

\* 0-based index of the record written for bone b's own (tail) node.
TailRecord(b) ==
    CHOOSE i \in 0..(Len(rig_nodes) - 1) :
        rig_nodes[i + 1].bone = b /\ rig_nodes[i + 1].position_attr = "tail_local"

\* Record i (0-based) is a synthetic node: the head of the bone that follows.
IsSynthetic(i) == rig_nodes[i + 1].position_attr = "head_local"

\* C2: the bindmap has an entry for exactly the real bones that have a parent
\* (no root, no placeholder); the i-th such bone in node-array order gets the
\* value i, so the values are exactly 0..B-1 without duplicate or gap.
C2_BindmapContiguous ==
    RigBuilt =>
        /\ DOMAIN bindmap = {armature[b].name : b \in ParentedBones}
        /\ \A b \in ParentedBones :
              bindmap[armature[b].name] =
                  Cardinality({c \in ParentedBones : NodePos(c) < NodePos(b)})
        /\ {bindmap[k] : k \in DOMAIN bindmap} = 0..(Cardinality(ParentedBones) - 1)
        /\ Cardinality(DOMAIN bindmap) = Cardinality(ParentedBones)

\* A rig with a root, a placeholder and three parented bones has its bindmap.
C2_Witness ==
    /\ RigBuilt
    /\ Cardinality(ParentedBones) >= 3
    /\ DetachedBones # {}
    /\ Cardinality(DOMAIN bindmap) = Cardinality(ParentedBones)

\* C3: for every bone B that has a parent and is not connected to it, the
\* record written immediately before B's record is a synthetic node (the head
\* of B), and the parent_index written for B is the array index of that
\* synthetic node; for any number of such bones.
C3_SyntheticPrecedes ==
    \A i \in 0..(Len(rig_nodes) - 1) :
        LET r == rig_nodes[i + 1] IN
        (r.position_attr = "tail_local" /\ r.bone \in DetachedBones) =>
            /\ i >= 1
            /\ IsSynthetic(i - 1)
            /\ rig_nodes[i].bone = r.bone
            /\ r.parent = i - 1

\* The rig chunk of an armature with two disconnected bones is complete.
C3_Witness ==
    /\ rig_pc = "rig_done"
    /\ Cardinality(DetachedBones) >= 2
    /\ \A b \in DetachedBones :
          \E i \in 1..Len(rig_nodes) :
              rig_nodes[i].bone = b /\ rig_nodes[i].position_attr = "tail_local"

\* C4: the node list has (number of bones) + (number of parented, not connected
\* bones) entries, a placeholder stands only immediately before a parented, not
\* connected bone (never before a root or a connected bone), and the node count
\* written equals the number of node records written after it.
C4_NodeCount ==
    /\ RigBuilt =>
          /\ Len(bones) = Len(armature) + Cardinality(DetachedBones)
          /\ \A i \in 1..Len(bones) :
                ~Truthy(bones[i]) =>
                    /\ i < Len(bones)
                    /\ bones[i + 1] \in DetachedBones
          /\ \A i \in 1..Len(bones) :
                (Truthy(bones[i]) /\ bones[i] \notin DetachedBones) =>
                    (i = 1 \/ Truthy(bones[i - 1]))
          /\ \A b \in 1..Len(armature) :
                Cardinality({i \in 1..Len(bones) : bones[i] = b}) = 1
    /\ rig_pc = "rig_done" => nodeNum = Len(rig_nodes)

\* A complete rig chunk with a root, a connected and a disconnected bone.
C4_Witness ==
    /\ rig_pc = "rig_done"
    /\ has_rig
    /\ DetachedBones # {}
    /\ ParentedBones \ DetachedBones # {}
    /\ nodeNum = Len(armature) + Cardinality(DetachedBones)

\* C5: the parent_index of a bone connected to its parent is the array index of
\* the parent's own node (placeholders counted), the parent_index of a
\* synthetic node is the array index of the node of the parent of the bone it
\* precedes, the parent_index of a root bone is 0; the connected flag is true
\* for every parented real bone and false for every synthetic node.
C5_ParentIndex ==
    \A i \in 0..(Len(rig_nodes) - 1) :
        LET r == rig_nodes[i + 1]
            b == r.bone
        IN  /\ (~IsSynthetic(i) /\ b \in ParentedBones /\ armature[b].use_connect) =>
                   r.parent = TailRecord(armature[b].parent)
            /\ IsSynthetic(i) =>
                   /\ b \in ParentedBones
                   /\ r.parent = TailRecord(armature[b].parent)
                   /\ r.connected = FALSE
            /\ (~IsSynthetic(i) /\ b \notin ParentedBones) => r.parent = 0
            /\ (~IsSynthetic(i) /\ b \in ParentedBones) => r.connected = TRUE

\* A complete rig chunk in which a connected bone's parent sits behind a
\* placeholder, so that the parent's array index is not its bone number.
C5_Witness ==
    /\ rig_pc = "rig_done"
    /\ \E i \in 0..(Len(rig_nodes) - 1) :
          LET b == rig_nodes[i + 1].bone IN
          /\ ~IsSynthetic(i)
          /\ b \in ParentedBones
          /\ armature[b].use_connect
          /\ rig_nodes[i + 1].parent # armature[b].parent - 1
    /\ \E i \in 0..(Len(rig_nodes) - 1) : IsSynthetic(i)

-----------------------------------------------------------------------------
(* Properties of smf_skin_indices_weights *)

\* Vertex j (1-based position in mesh.vertices) has been through the loop.
Processed(j) == skin_pc \in {"loop", "done"} /\ j \in 1..v

\* The valid skin groups of vertex j: present in the map, weight above 0.
ValidGroups(j) ==
    { g \in 0..(MaxGroups - 1) :
        \E i \in 1..Len(vertices[j]) :
            /\ vertices[j][i].group = g
            /\ g \in DOMAIN index_map
            /\ vertices[j][i].weight > 0 }

\* The weight vertex j gives group g.
GroupWeight(j, g) ==
    LET i == CHOOSE i \in 1..Len(vertices[j]) : vertices[j][i].group = g
    IN  vertices[j][i].weight

\* The set's smaller of two numbers.
Min(a, b) == IF a <= b THEN a ELSE b

\* C6: a vertex without a valid skin group (no group of the bindmap with
\* weight above 0) gets indices [0, 0, 0, 0] and weights [255, 0, 0, 0].
C6_DefaultBinding ==
    \A j \in 1..Len(vertices) :
        (Processed(j) /\ ValidGroups(j) = {}) =>
            /\ indices[j] = <<0, 0, 0, 0>>
            /\ weights[j] = <<255, 0, 0, 0>>

\* C7: for a vertex with at least one valid group, and num_influences in 1..4,
\* the four weight bytes sum to 254, 255 or 256.
C7_WeightSum ==
    \A j \in 1..Len(vertices) :
        (Processed(j) /\ ValidGroups(j) # {}) =>
            weights[j][1] + weights[j][2] + weights[j][3] + weights[j][4]
                \in {254, 255, 256}

\* The groups written for vertex j, read back from the indices of its first
\* k slots (the index map is injective).
WrittenGroups(j, k) ==
    { g \in DOMAIN index_map : \E slot \in 1..k : indices[j][slot] = index_map[g] }

\* C8: the groups written for a vertex are the num_influences valid groups of
\* greatest weight (all of them when fewer): no dropped group is heavier than a
\* kept one, and nothing but the kept groups contributes an index or a weight
\* (a kept weight is its share of the kept weights' sum; slots past the kept
\* groups keep their initial index 0 and weight 0).
C8_TopInfluences ==
    \A j \in 1..Len(vertices) :
        Processed(j) =>
            LET valid == ValidGroups(j)
                k == Min(num_influences, Cardinality(valid))
                kept == WrittenGroups(j, k)
                s == SumWeights([i \in 1..k |->
                        [group |-> 0,
                         weight |-> GroupWeight(j,
                            CHOOSE g \in kept : index_map[g] = indices[j][i])]])
            IN  /\ kept \subseteq valid
                /\ Cardinality(kept) = k
                /\ \A d \in valid \ kept : \A g \in kept :
                      GroupWeight(j, d) <= GroupWeight(j, g)
                /\ \A slot \in 1..k :
                      \E g \in kept :
                          /\ indices[j][slot] = index_map[g]
                          /\ weights[j][slot] = (GroupWeight(j, g) * 255) \div s
                /\ \A slot \in (k + 1)..4 :
                      /\ indices[j][slot] = 0
                      /\ weights[j][slot] = IF slot = 1 THEN 1 ELSE 0

\* A processed vertex with more valid groups than influences, of different
\* weights, that also carries a group outside the map and a group of weight 0.
C8_Witness ==
    /\ skin_pc = "done"
    /\ num_influences >= 2
    /\ \E j \in 1..Len(vertices) :
          /\ Cardinality(ValidGroups(j)) > num_influences
          /\ \E a, b \in ValidGroups(j) : GroupWeight(j, a) < GroupWeight(j, b)
          /\ \E i \in 1..Len(vertices[j]) :
                vertices[j][i].group \notin DOMAIN index_map /\ vertices[j][i].weight > 0
          /\ \E i \in 1..Len(vertices[j]) : vertices[j][i].weight = 0

-----------------------------------------------------------------------------
(* Properties of the written container *)

\* The byte position in the file at which write k begins.
FilePos(k) == ByteLen(Flatten([j \in 1..(k - 1) |-> file[j].bytes]))

\* The write that holds chunk c.
WriteOf(c) == CHOOSE k \in 1..Len(file) : file[k].chunk = c

\* The chunk whose write holds the byte at position p.
ByteOwner(p) ==
    LET k == CHOOSE j \in 1..Len(file) :
                 FilePos(j) <= p /\ p < FilePos(j) + ByteLen(file[j].bytes)
    IN  file[k].chunk

\* The offset table as the file holds it: the offset fields of the header.
StoredOffsets ==
    LET fields == SelectSeq(file[1].bytes, LAMBDA f : f.kind = "offset")
    IN  [i \in 1..Len(fields) |-> fields[i].val]

\* C1: in every file any of the three encoders writes, the offset the header
\* stores for a chunk is the byte position at which that chunk begins in the
\* file (a chunk that has bytes owns the byte at its offset and not the byte
\* before it), and two consecutive offsets differ by the byte length of the
\* earlier chunk.
C1_OffsetsMatchChunks ==
    ct_pc = "written" =>
        /\ Len(StoredOffsets) = Len(OffsetOrder(enc))
        /\ \A i \in 1..Len(OffsetOrder(enc)) :
            LET c == OffsetOrder(enc)[i]
                k == WriteOf(c)
                off == StoredOffsets[i]
            IN  /\ off = FilePos(k)
                /\ file[k].bytes # <<>> =>
                       /\ ByteOwner(off) = c
                       /\ ByteOwner(off - 1) # c
                /\ i < Len(OffsetOrder(enc)) =>
                       StoredOffsets[i + 1] - off = ByteLen(file[k].bytes)

\* A v10 file is written that holds a texture, a model with a triangle, a rig
\* with an inserted node and an animation record.
C1_Witness ==
    /\ ct_pc = "written"
    /\ enc = "v10"
    /\ export_textures
    /\ \E i \in 1..Len(model_list) : model_list[i].tris = 1 /\ model_list[i].mat = 1
    /\ Len(armature) = 2 /\ ~armature[2].use_connect
    /\ anim_frames = <<2>>
    /\ StoredOffsets[5] > StoredOffsets[1]

\* The buffer of chunk c has been built.
Built(c) == c \in DOMAIN chunks

\* The chunks of order are built one after the other, in the order given.
PhasesInOrder(order) ==
    \A j \in 1..Len(order) : \A i \in 1..(j - 1) : Built(order[j]) => Built(order[i])

\* The header exists only when every chunk of the offset table is built.
HeaderAfterChunks ==
    header_bytes # <<>> => \A i \in 1..Len(OffsetOrder(enc)) : Built(OffsetOrder(enc)[i])

\* The encoder has a chunk c.
HasChunk(c) == \E i \in 1..Len(OffsetOrder(enc)) : OffsetOrder(enc)[i] = c

\* C18 as stated: the chunks are built in the order textures, materials,
\* models, rig, animations (those of them the format has), and the header is
\* built only after every chunk is built.
C18_ClaimedPhaseOrder ==
    /\ PhasesInOrder(SelectSeq(<<"tex", "mat", "mod", "rig", "ani">>, HasChunk))
    /\ HeaderAfterChunks

\* C18, amended: export_smf.py (v11) builds rig, models, textures, animations
\* in that order, smf.py (v10) textures, materials, rig, models, animations,
\* io_export_gms_smf.py (v7) textures, materials, models, nodes, collision,
\* rig, animations, selections; the header is built only after every chunk is
\* built.
C18_PhaseOrder ==
    /\ enc = "v11" => PhasesInOrder(<<"rig", "mod", "tex", "ani">>)
    /\ enc = "v10" => PhasesInOrder(<<"tex", "mat", "rig", "mod", "ani">>)
    /\ enc = "v7" => PhasesInOrder(<<"tex", "mat", "mod", "nod", "col", "rig",
                                      "ani", "sel">>)
    /\ HeaderAfterChunks

\* The v11 encoder has built the rig and the models and not yet the textures.
C18_Witness ==
    /\ enc = "v11"
    /\ has_rig /\ Len(armature) >= 1 /\ Len(model_list) >= 1
    /\ Built("rig") /\ Built("mod") /\ ~Built("tex")

\* The fields of kind kind of chunk c of the written file.
WrittenFields(c, kind) ==
    { f \in UNION { {file[i].bytes[j] : j \in 1..Len(file[i].bytes)} :
                    i \in {k \in 1..Len(file) : file[k].chunk = c} } :
        f.kind = kind }

\* C27: in a file written by export_smf_file every texture name of a model
\* sub-block that is not empty is the name of an entry of the texture chunk.
C27_TextureNamesInTextureChunk ==
    enc = "v11" /\ ct_pc = "written" =>
        \A f \in WrittenFields("mod", "img_name") :
            f.val # EmptyName =>
                \E t \in WrittenFields("tex", "name") : t.val = f.val

\* C29: the file at filepath changes only in the step that writes the
\* finished header and chunks; while the chunks and the header are built, and
\* when building them raises, it stays as it was and no file is created.
C29_FileOpenedAfterBuild ==
    [][/\ file' # file => ct_pc = "header" /\ ct_pc' = "written"
       /\ ct_pc' = "failed" => file' = file]_vars

\* The v11 encoder has raised on its animation chunk, with the other chunks
\* built and a file at filepath.
C29_Witness ==
    /\ enc = "v11"
    /\ ct_pc = "failed"
    /\ Built("mod")
    /\ file = ExistingFile

\* The animation records of the buffer: one animName field each.
AnimationRecords(buffer) == SelectSeq(buffer, LAMBDA f : f.kind = "animName")

\* C30: the animation chunk of the v10 encoder starts with a count byte, and
\* the count is the number of animation records that follow it, whatever
\* export_nla_tracks, the animation data, the NLA tracks and their strips are.
C30_AnimationCountMatchesRecords ==
    enc = "v10" /\ Built("ani") =>
        /\ chunks["ani"] # <<>>
        /\ chunks["ani"][1].kind = "count"
        /\ chunks["ani"][1].val = Len(AnimationRecords(chunks["ani"]))

-----------------------------------------------------------------------------
(* Properties of the scene state *)

\* C9: when export_smf_file fails after it has changed the scene state, the
\* pose_position, the active action, the mute flag of every NLA track and the
\* current frame have their values from before the call.
C9_StateRestoredOnFailure ==
    sc_pc = "failed" => SceneState = at_call

\* C28: in keyframe mode the export raises no exception, also for an action
\* without keyframe point and for an action whose last keyframe is at 0, and
\* when it is done the animation chunk has a record for every exported action.
C28_KeyframeModeCompletes ==
    export_type = "KFR" =>
        /\ sc_pc # "failed"
        /\ sc_pc = "finished" =>
              /\ Len(animation_bytes.records) = Len(animations)
              /\ \A i \in 1..Len(animations) :
                    animation_bytes.records[i].animName = animations[i].id

-----------------------------------------------------------------------------
(* Properties of import_smf_file *)

\* The file does not start with the v7 magic, or int() of its version float
\* is not 7.
BadHeader ==
    \/ data.magic # "SnidrsModelFormat"
    \/ PyInt(data.version) # 7

\* C10: when the first 17 bytes of the file are not "SnidrsModelFormat", or
\* the version number read from the header is not 7, import_smf_file stops at
\* that test: it has unpacked neither the offset table nor anything of a
\* chunk, and it has created no image, material, mesh, object or armature.
C10_BadHeaderStops ==
    (im_pc # "idle" /\ BadHeader) =>
        /\ im_pc \in {"header", "version", "finished", "failed"}
        /\ im_pc = "failed" => data.length = "empty"
        /\ \A i \in 1..Len(reads) : reads[i] \in {"magic", "version"}
        /\ (data.magic # "SnidrsModelFormat" /\ reads # <<>>) =>
               (im_pc = "finished" /\ reads = <<"magic">>)
        /\ versionNum # None => im_pc = "finished"
        /\ images = <<>>
        /\ materials \in { <<>>, << <<97>> >> }
        /\ material_map = EmptyDict
        /\ meshes = 0
        /\ objects = <<>>
        /\ edit_bones = 0

\* A file with the v7 magic and version 8.0 has been turned away.
C10_Witness ==
    /\ im_pc = "finished"
    /\ data.magic = "SnidrsModelFormat"
    /\ data.version = 80
    /\ Len(data.models) > 0
    /\ reads = <<"magic", "version">>

\* The texture loop has ended with an exception.
TextureLoopFailed ==
    im_pc = "failed" /\ reads # <<>> /\ reads[Len(reads)] = "tex"

\* The texture loop has ended normally.
TextureLoopDone ==
    Contains(reads, "offsets") /\ tex_i = Len(data.textures)

\* C24: with create_new_materials_images off, a texture whose material exists
\* already takes that material and the loop goes on, whatever the position of
\* the texture, and material_map ends with one entry per texture name, keyed
\* by the name of the texture.
C24_ExistingMaterialReused ==
    ~create_new_materials_images =>
        /\ ~TextureLoopFailed
        /\ TextureLoopDone =>
              DOMAIN material_map =
                 { unpack_string_from(data.textures[i]) : i \in 1..Len(data.textures) }

-----------------------------------------------------------------------------
(* Properties of export followed by import *)

\* C11: a file export_smf_file writes for a single-triangle mesh with one
\* bone is accepted by import_smf_file: the import gets past the header tests
\* to the offset table and yields the mesh of the model.
C11_ExportedFileAccepted ==
    ( /\ enc = "v11"
      /\ Len(model_list) = 1 /\ model_list[1].tris = 1
      /\ has_rig /\ Len(armature) = 1
      /\ im_pc \in {"finished", "failed"} )
    => (Contains(reads, "offsets") /\ meshes = 1)

-----------------------------------------------------------------------------
(* Properties of the animation chunk *)

\* The frames written so far, as <<record, frame>> index pairs.
WrittenFrames ==
    IF animation_bytes = <<>> THEN {}
    ELSE { rf \in (1..Len(animation_bytes.records)) \X (1..(2 * MaxFrame + 3)) :
             rf[2] <= Len(animation_bytes.records[rf[1]].frames) }

FrameAt(rf) == animation_bytes.records[rf[1]].frames[rf[2]]

\* C12: in 'SPL' mode with N >= 1 subdivisions every animation of a finished
\* export has exactly N + 1 frames, and the time written for frame i
\* (counted from 0) is i / N, whatever the frame range of the action.
C12_SampledTimesAreFractions ==
    (sc_pc = "finished" /\ export_type = "SPL" /\ subdivisions >= 1)
    => \A r \in 1..Len(animation_bytes.records) :
          LET frames == animation_bytes.records[r].frames
          IN  /\ Len(frames) = subdivisions + 1
              /\ \A i \in 1..Len(frames) :
                    frames[i].time.num * subdivisions = (i - 1) * frames[i].time.den

\* C13: every frame time written, in both modes and for any keyframes and
\* frame range, lies in [0, 1], and the times of an animation are strictly
\* increasing.
C13_TimesInUnitIntervalIncreasing ==
    \A rf \in WrittenFrames :
        LET t == FrameAt(rf).time
        IN  /\ t.num >= 0
            /\ t.num <= t.den
            /\ rf[2] > 1 =>
                  LET s == FrameAt(<<rf[1], rf[2] - 1>>).time
                  IN  s.num * t.den < t.num * s.den

\* C14: the real parts of the dual quaternions written for a node in two
\* consecutive frames of an animation have a non-negative dot product (the
\* current one is negated when the dot product with the previous one is
\* negative).
C14_ConsecutiveRealPartsAgree ==
    \A rf \in WrittenFrames :
        rf[2] > 1 => Dot(FrameAt(<<rf[1], rf[2] - 1>>).real, FrameAt(rf).real) >= 0

\* The NLA tracks that hold at least one strip.
TracksWithStrips == { i \in 1..Len(strips) : strips[i] # <<>> }

\* C17: in mode 'TRA' the animation count written is the number of NLA
\* tracks that hold strips, and there is one animation record per such track.
C17_OneAnimationPerTrack ==
    (sc_pc = "finished" /\ anim_export_mode = "TRA")
    => /\ animation_bytes.count = Cardinality(TracksWithStrips)
       /\ Len(animation_bytes.records) = Cardinality(TracksWithStrips)

-----------------------------------------------------------------------------
(* Properties of dq_normalize *)

\* C15: dq_normalize called on a dual quaternion whose real part has
\* magnitude zero raises no error and returns to the caller.
C15_ZeroMagnitudeReturns ==
    (dq_pc \in {"returned", "raised"} /\ Magnitude(dq.real) = 0)
    => dq_pc = "returned"

-----------------------------------------------------------------------------
(* Properties of apply_world_matrix *)

\* The composed transform matrix_world @ matrix.
Composed == MatMul(matrix_world, matrix)

\* The rotation of the composed transform, without its scale.
ComposedRotation == Decompose(Composed).rot

\* C16 as stated: the translation of the matrix returned is the translation
\* of the composed transform, no component negated and none swapped.
C16_TranslationUntouched ==
    mx_pc = "returned" =>
        \A i \in 1..3 : mat_w[i][4] = Composed[i][4]

\* C16, amended: the translation of the matrix returned is the translation
\* of the composed transform with its Y component negated and no components
\* swapped; the rotation part is the rotation of the composed transform with
\* its first two columns swapped and its second row negated.
C16_TranslationMirrored ==
    mx_pc = "returned" =>
        /\ mat_w[1][4] = Composed[1][4]
        /\ mat_w[2][4] = 0 - Composed[2][4]
        /\ mat_w[3][4] = Composed[3][4]
        /\ \A i \in 1..3 :
              /\ mat_w[i][1] = (IF i = 2 THEN 0 - 1 ELSE 1) * ComposedRotation[i][2]
              /\ mat_w[i][2] = (IF i = 2 THEN 0 - 1 ELSE 1) * ComposedRotation[i][1]
              /\ mat_w[i][3] = (IF i = 2 THEN 0 - 1 ELSE 1) * ComposedRotation[i][3]
        /\ mat_w[4] = <<0, 0, 0, 1>>

\* A call whose composed translation has Y not 0 and X different from Y, with
\* a scaled and rotated world matrix.
C16_Witness ==
    /\ mx_pc = "returned"
    /\ Composed[2][4] # 0
    /\ Composed[1][4] # Composed[2][4]
    /\ Decompose(matrix_world).scale = <<2, 2, 2>>
    /\ Decompose(matrix_world).rot # Decompose(matrix).rot
    /\ mat_w[2][4] = 0 - Composed[2][4]

-----------------------------------------------------------------------------
(* Properties of the texture lookup *)

\* The image the node tree of the material leads to has no pixel data.
ResolvesToImageWithoutData ==
    /\ material.use_nodes /\ material.has_output /\ material.surface_linked
    /\ \/ material.first.type = "TEX_IMAGE" /\ material.first.image = "no_data"
       \/ /\ ~(material.first.type = "TEX_IMAGE" /\ material.first.image # "None")
          /\ material.input0_linked
          /\ material.second.type = "TEX_IMAGE" /\ material.second.image = "no_data"

\* C19: when the image of the material has no pixel data, a warning is
\* reported, the sub-block is written with an empty texture name and the
\* image gets no entry in the texture chunk.
C19_MissingDataWarned ==
    (tx_pc = "written" /\ ResolvesToImageWithoutData)
    => /\ reports # <<>>
       /\ sub_img_name = EmptyName
       /\ unique_images = {}

-----------------------------------------------------------------------------
(* Properties of the string decoder *)

\* C20: for every name without a zero character, unpack_string_from on the
\* bytes the encoder wrote returns the same name, and the caller's offset
\* plus the length of the result plus 1 is the position of the first byte
\* after the terminator.
C20_NameRoundTrip ==
    str_pc = "advanced" =>
        /\ str_result = str_name
        /\ str_next = str_start + Len(EncodedName(str_name))

-----------------------------------------------------------------------------
(* Properties of dq_get_product *)

\* A pure rotation: unit real part, zero dual part.
PureRotation(d) ==
    /\ Dot(d.real, d.real) = d.den * d.den
    /\ d.dual = <<0, 0, 0, 0>>

\* The identity dual quaternion: real part w = 1, x = y = z = 0, dual part 0.
IsIdentity(d) ==
    /\ d.real = <<d.den, 0, 0, 0>>
    /\ d.dual = <<0, 0, 0, 0>>

\* C21: the product of a pure rotation and its conjugate is the identity
\* dual quaternion, and the product of dq1 and dq2 has the real part
\* real1 * real2 and the dual part real1 * dual2 + dual1 * real2, operands in
\* that order.
C21_ProductWithConjugate ==
    pr_pc = "returned" =>
        /\ (PureRotation(dq1) /\ dq2 = dq_get_conjugate(dq1)) => IsIdentity(dq_product)
        /\ dq_product.real = QMul(dq1.real, dq2.real)
        /\ dq_product.dual = QAdd(QMul(dq1.real, dq2.dual), QMul(dq1.dual, dq2.real))

\* The product of a turn about X and its conjugate was computed, and is the
\* identity.
C21_Witness ==
    /\ pr_pc = "returned"
    /\ dq1.real = <<15, 20, 0, 0>>
    /\ PureRotation(dq1)
    /\ dq2 = dq_get_conjugate(dq1)
    /\ dq2.real = <<15, 0 - 20, 0, 0>>
    /\ IsIdentity(dq_product)

-----------------------------------------------------------------------------
(* Properties of the model chunk *)

\* The (object, material slot) pairs used by at least one triangle.
UsedPairs ==
    { os \in (1..Len(mesh_objects)) \X (0..MaxSlots) :
        \E i \in 1..Len(mesh_objects[os[1]].faces) :
            mesh_objects[os[1]].faces[i] = os[2] }

\* The number of triangles of an object that use a slot.
TrianglesUsing(os) ==
    Cardinality({ i \in 1..Len(mesh_objects[os[1]].faces) :
                    mesh_objects[os[1]].faces[i] = os[2] })

\* C23: the count byte of the model chunk is the number of sub-blocks that
\* follow; there is one sub-block for every (object, slot) pair used by a
\* triangle and none for any other slot; the length prefix of a sub-block is
\* 44 * 3 * (the number of triangles that use its slot).
C23_ModelCountAndLengths ==
    mc_pc = "done" =>
        LET lengths == FieldValues(model_bytes, "length")
            owners == FieldValues(model_bytes, "vertices")
        IN  /\ model_bytes[1].kind = "count"
            /\ model_bytes[1].val = Len(lengths)
            /\ Len(owners) = Len(lengths)
            /\ Len(lengths) = Cardinality(UsedPairs)
            /\ { owners[k] : k \in 1..Len(owners) } = UsedPairs
            /\ \A k \in 1..Len(lengths) :
                  lengths[k] = 44 * 3 * TrianglesUsing(owners[k])

\* A chunk of two objects: one whose two slots are both used, one with two
\* slots of which only the second is used, by two triangles.
C23_Witness ==
    /\ mc_pc = "done"
    /\ Len(mesh_objects) = 2
    /\ mesh_objects[1] = [slots |-> 2, faces |-> <<0, 1>>]
    /\ mesh_objects[2] = [slots |-> 2, faces |-> <<1, 1>>]
    /\ model_bytes[1].val = 3
    /\ FieldValues(model_bytes, "length") = <<132, 132, 264>>

-----------------------------------------------------------------------------
(* Properties of the node loop *)

\* C25: the matrix written for an added node has the identity rotation and
\* the position of the head of the bone that follows the node in the list.
C25_AddedNodeAtHeadOfNextBone ==
    \A k \in 1..Len(node_mats) :
        node_list[k] = None =>
            /\ node_mats[k].rot = <<"identity", 0>>
            /\ node_mats[k].translation = pose_bones[node_list[k + 1]].head

-----------------------------------------------------------------------------
(* Properties of the vertex loop *)

\* The V a loop had before the export: 0 without a UV layer.
OriginalV(loop) == IF uv_orig # <<>> THEN uv_orig[loop] ELSE 0

\* C26: with invert_uv_v set every record written has V = 1 - the original V
\* of its loop, also when two triangles use the loop.
C26_VInvertedOnce ==
    invert_uv_v =>
        \A k \in 1..Len(vertex_records) :
            vertex_records[k].v = MaxUv - OriginalV(vertex_records[k].loop)

====
